---- MODULE Spec2Model ----
(***************************************************************************)
(* Verification model of the CopilotKit direct ag_ui adapter layer:        *)
(*   - CopilotRuntimeDirectClient (event translation, streaming, abort),   *)
(*   - DirectAgUiRuntimeClient (fetch based client, asStream),             *)
(*   - useDirectAgUiRuntimeClient / useCopilotAguiClients (error routing,  *)
(*     deduplication, agent resolution).                                   *)
(*                                                                         *)
(* JavaScript objects are records over a fixed key universe; the field     *)
(* "has" is the set of keys whose value is defined.  Strings that are      *)
(* concatenated (message content) are sequences of characters.             *)
(***************************************************************************)
EXTENDS Integers, Sequences, FiniteSets, TLC

VARIABLES
    \* ---- event translator driven on its own (convertAGUIEventToGQL)
    clientUrl,      \* options.url of the CopilotRuntimeDirectClient / its HttpAgent
    trEvents,       \* protocol events handed to convertAGUIEventToGQL so far
    trOut,          \* one conversion result per event, in order
    \* ---- one CopilotRuntimeDirectClient.generateCopilotResponse stream
    signalAborted,  \* signal.aborted
    gen,            \* "idle" before the call, then "stream" or "failed" (outer catch)
    upstream,       \* subscription to responseObservable: none / active / completed / errored
    upEvents,       \* events the upstream observable has emitted so far
    listener,       \* abortHandler is registered on the signal
    stream,         \* responseStream: controller and reader state
    pumpPc,         \* pump(): "none", "await" (awaiting reader.read()), "done"
    subscribed,     \* subscribe() has been called
    unsubscribed,   \* the function returned by subscribe() has been called
    timerPending,   \* setTimeout of the failed observable is pending
    obsLog,         \* callbacks made on the subscriber's observer, in order
    handleErrorsLog,\* errors passed to this.handleErrors, in order
    uncaught,       \* an exception escaped a listener / observer callback
    abortAt,        \* history: Len(obsLog) and Len(upEvents) when the signal fired
                    \* while the subscription was live, NoAbort otherwise
    subscribedAt,   \* history: Len(upEvents) when subscribe() was called
    \* ---- one DirectAgUiRuntimeClient.generateCopilotResponse request
    dcApiKey,       \* options.publicApiKey is set
    dcAborted,      \* signal.aborted of the request
    dcCalledAborted,\* history: the signal was already aborted at the call
    dcPhase,        \* "idle", "fetching", "json" (awaiting response.json()), "settled"
    dcResponse,     \* what fetch() settled with: a response or a rejection
    dcRequests,     \* number of fetch() calls issued
    dcPromise,      \* responsePromise: pending, data or error
    dcWarnings,     \* messages passed to handleGQLWarning
    dcGqlErrors,    \* errors passed to handleGQLErrors, in order
    dcSubs,         \* subscribers of the result: observer calls / asStream streams
    \* ---- error routing of useDirectAgUiRuntimeClient / useCopilotAguiClients
    now,            \* Date.now()
    isDev,          \* shouldShowDevConsole(showDevConsole ?? false)
    onError,        \* options.onError: "undefined", or a handler that "returns" or "throws"
    publicApiKey,   \* options.publicApiKey is set
    lastStructuredErrorRef, \* per hook: lastStructuredErrorRef.current
    banners,        \* errors passed to setBannerError, in order
    arrivals,       \* history: every error a hook routed, and whether it was surfaced
    \* ---- useCopilotAguiClients: client construction and agent resolution
    rendered,       \* the hook has been rendered
    options,        \* options of the render: endpoints, enabled
    aguiClients,    \* useMemo result: agent name -> HttpAgent
    errorSubscribers, \* agent names that have an error subscriber
    constructed,    \* number of `new HttpAgent(...)` evaluated
    lookups,        \* history: calls of getClientForAgent and their results
    \* ---- client factories: createUnifiedClient, createCopilotRuntimeClient
    fcCalls,        \* history: calls of the factory functions and their outcomes
    fcConstructed,  \* clients constructed so far, in order
    \* ---- message conversion: copilotKitToAgui, aguiToCopilotKit
    cvPhase,        \* "input", "agui" (copilotKitToAgui returned), "back" (aguiToCopilotKit returned)
    cvMessages,     \* internal messages given to copilotKitToAgui
    cvUuids,        \* history: value of randomUUID() per message position
    cvAgui,         \* wire messages returned by copilotKitToAgui
    cvBack,         \* messages returned by aguiToCopilotKit
    \* ---- AgUiClient: generateCopilotResponse, streamCopilotResponse
    agentThreadId,  \* this.agent.threadId of the AgUiClient
    agInv,          \* invocations of generateCopilotResponse on the client, in order
    agHandleErrors, \* errors passed to this.handleErrors, in order
    \* ---- error classification: createStructuredError and the fallback of routeError
    csError,        \* the graphQLErrors entry routeError is classifying
    csShown,        \* structured errors passed to setBannerError for it, in order
    \* ---- DirectAgUiRuntimeClient: availableAgents and loadAgentState
    rqHandler,      \* handleGQLErrors of the client: undefined, returns or throws
    rqApiKey,       \* whether the client's headers carry a public API key
    rqLog,          \* the calls so far: what each sent and how its promise settled
    \* ---- removeGraphQLTypename applied to one value
    rtInput,        \* the value as it was when removeGraphQLTypename was first called on it
    rtData,         \* the value the caller holds; removeGraphQLTypename changes it in place
    rtCalls         \* the value after each call of removeGraphQLTypename so far

trVars == <<trEvents, trOut>>
stVars == <<signalAborted, gen, upstream, upEvents, listener, stream, pumpPc,
            subscribed, unsubscribed, timerPending, obsLog, handleErrorsLog,
            uncaught, abortAt, subscribedAt>>
dcVars == <<dcApiKey, dcResponse, dcAborted, dcCalledAborted, dcPhase, dcRequests, dcPromise, dcWarnings,
            dcGqlErrors, dcSubs>>
ddVars == <<now, isDev, onError, publicApiKey, lastStructuredErrorRef, banners, arrivals>>
clVars == <<rendered, options, aguiClients, errorSubscribers, constructed, lookups>>
fcVars == <<fcCalls, fcConstructed>>
cvVars == <<cvPhase, cvMessages, cvUuids, cvAgui, cvBack>>
agVars == <<agentThreadId, agInv, agHandleErrors>>
csVars == <<csError, csShown>>
rqVars == <<rqHandler, rqApiKey, rqLog>>
rtVars == <<rtInput, rtData, rtCalls>>
vars == <<clientUrl, trVars, stVars, dcVars, ddVars, clVars, fcVars, cvVars, agVars, csVars, rqVars, rtVars>>

\* What the steps of one component leave alone
notStream == <<clientUrl, trVars, dcVars, ddVars, clVars, fcVars, cvVars, agVars, csVars, rqVars, rtVars>>
notTranslate == <<clientUrl, stVars, dcVars, ddVars, clVars, fcVars, cvVars, agVars, csVars, rqVars, rtVars>>
notDirect == <<clientUrl, trVars, stVars, ddVars, clVars, fcVars, cvVars, agVars, csVars, rqVars, rtVars>>
notDedup == <<clientUrl, trVars, stVars, dcVars, clVars, fcVars, cvVars, agVars, csVars, rqVars, rtVars>>
notClients == <<clientUrl, trVars, stVars, dcVars, ddVars, fcVars, cvVars, agVars, csVars, rqVars, rtVars>>
notFactory == <<clientUrl, trVars, stVars, dcVars, ddVars, clVars, cvVars, agVars, csVars, rqVars, rtVars>>
notConvert == <<clientUrl, trVars, stVars, dcVars, ddVars, clVars, fcVars, agVars, csVars, rqVars, rtVars>>
notAgUi == <<clientUrl, trVars, stVars, dcVars, ddVars, clVars, fcVars, cvVars, csVars, rqVars, rtVars>>
notClassify == <<clientUrl, trVars, stVars, dcVars, ddVars, clVars, fcVars, cvVars, agVars, rqVars, rtVars>>
notRequests == <<clientUrl, trVars, stVars, dcVars, ddVars, clVars, fcVars, cvVars, agVars, csVars, rtVars>>
notTypename == <<clientUrl, trVars, stVars, dcVars, ddVars, clVars, fcVars, cvVars, agVars, csVars, rqVars>>

(***************************************************************************)
(* Bounds of the model.                                                    *)
(***************************************************************************)
MaxTrLen == 3       \* longest event sequence given to the translator
MaxEvents == 3      \* most events one upstream observable emits
MaxSubs == 2        \* most subscribers of one DirectAgUiRuntimeClient result
MaxArrivals == 3    \* most errors routed by the hooks in one behaviour
ClockStep == 50     \* milliseconds between two readings of the clock
MaxClock == 200     \* last reading of the clock
MaxLookups == 2     \* most getClientForAgent calls on one render
MaxFactoryCalls == 2 \* most calls of the factory functions in one behaviour
MaxMessages == 2    \* longest message list given to copilotKitToAgui
MaxInvocations == 2 \* most generateCopilotResponse calls on one AgUiClient
MaxAgEvents == 2    \* most events one agent run of the AgUiClient emits
MaxStackLen == 2    \* most error names in one stack trace

(***************************************************************************)
(* JavaScript values.                                                      *)
(***************************************************************************)
MessageIds == {"m1", "m2"}
RandomIds == {"rnd1", "rnd2"}       \* values randomId() can return
ClientUrls == {"http://agent", ""}

\* An object with no key defined.
Blank ==
    [ has |-> {},
      type |-> "", typename |-> "", id |-> "", messageId |-> "",
      createdAt |-> "", role |-> "", content |-> <<>>, status |-> "",
      message |-> "", name |-> "", value |-> "",
      actionExecutionId |-> "", actionName |-> "", args |-> "",
      arguments |-> <<>>, parentMessageId |-> "",
      threadId |-> "", agentName |-> "", state |-> "", running |-> FALSE,
      nodeName |-> "", runId |-> "", active |-> FALSE ]

\* { ...o, [k]: v }
Set(o, k, v) == [o EXCEPT ![k] = v, !.has = @ \cup {k}]

\* { ...o, [k]: src[from] } : the key stays undefined when src[from] is undefined
Copy(o, k, src, from) == IF from \in src.has THEN Set(o, k, src[from]) ELSE o

\* JavaScript truthiness of a string valued key: defined and not ""
Truthy(o, k) == k \in o.has /\ o[k] # ""

\* JavaScript truthiness of a boolean valued key
TruthyFlag(o, k) == k \in o.has /\ o[k]

\* { ...base, ...ev }
Spread(base, ev) ==
    [k \in DOMAIN base |->
        IF k = "has" THEN base.has \cup ev.has
        ELSE IF k \in ev.has THEN ev[k] ELSE base[k]]

(***************************************************************************)
(* Errors.                                                                 *)
(***************************************************************************)
NoError == [kind |-> "none", url |-> "", message |-> "", inner |-> ""]

\* new CopilotKitLowLevelError({ error: new Error(inner), url, message })
CopilotKitLowLevelError(inner, url, message) ==
    [kind |-> "CopilotKitLowLevelError", url |-> url, message |-> message, inner |-> inner]

(***************************************************************************)
(* convertAGUIEventToGQL: the result is a record (kind "record"), null     *)
(* (kind "null") or a thrown error (kind "throw").  rid is the value       *)
(* randomId() returns when the case calls it.                              *)
(***************************************************************************)
Returned(rec) == [kind |-> "record", rec |-> rec, err |-> NoError]
ReturnedNull == [kind |-> "null", rec |-> Blank, err |-> NoError]
Thrown(err) == [kind |-> "throw", rec |-> Blank, err |-> err]

TextMessageStart(event, rid) ==
    LET r0 == Set(Blank, "typename", "TextMessageOutput")
        r1 == Set(r0, "id", IF Truthy(event, "messageId") THEN event.messageId ELSE rid)
        r2 == Set(r1, "createdAt", "now")
        r3 == Set(r2, "role", "assistant")
        r4 == Set(r3, "content", <<>>)
    IN  Set(r4, "status", "PENDING")

\* Mutant: content records announce the status again
TextMessageContentPending(event) ==
    LET r0 == Set(Blank, "typename", "TextMessageOutput")
        r1 == Copy(r0, "id", event, "messageId")
        r2 == Copy(r1, "content", event, "content")
        r3 == Set(r2, "role", "assistant")
    IN  Set(r3, "status", "PENDING")

TextMessageContent(event) ==
    LET r0 == Set(Blank, "typename", "TextMessageOutput")
        r1 == Copy(r0, "id", event, "messageId")
        r2 == Copy(r1, "content", event, "content")
    IN  Set(r2, "role", "assistant")

\* Mutant: the end record repeats the status of the start record
TextMessageEndPending(event) ==
    LET r0 == Set(Blank, "typename", "TextMessageOutput")
        r1 == Copy(r0, "id", event, "messageId")
    IN  Set(r1, "status", "PENDING")

TextMessageEnd(event) ==
    LET r0 == Set(Blank, "typename", "TextMessageOutput")
        r1 == Copy(r0, "id", event, "messageId")
    IN  Set(r1, "status", "SUCCESS")

ActionExecutionStart(event) ==
    LET r0 == Set(Blank, "typename", "ActionExecutionMessageOutput")
        r1 == Copy(r0, "id", event, "actionExecutionId")
        r2 == Copy(r1, "name", event, "actionName")
        r3 == Set(r2, "arguments", <<>>)
        r4 == Copy(r3, "parentMessageId", event, "parentMessageId")
    IN  Set(r4, "status", "PENDING")

ActionExecutionArgs(event) ==
    LET r0 == Set(Blank, "typename", "ActionExecutionMessageOutput")
        r1 == Copy(r0, "id", event, "actionExecutionId")
    IN  Set(r1, "arguments", <<IF "args" \in event.has THEN event.args ELSE "undefined">>)

ActionExecutionEnd(event) ==
    LET r0 == Set(Blank, "typename", "ActionExecutionMessageOutput")
        r1 == Copy(r0, "id", event, "actionExecutionId")
    IN  Set(r1, "status", "SUCCESS")

AgentStateMessage(event, rid) ==
    LET r0 == Set(Blank, "typename", "AgentStateMessageOutput")
        r1 == Set(r0, "id", rid)
        r2 == Copy(r1, "threadId", event, "threadId")
        r3 == Copy(r2, "agentName", event, "agentName")
        r4 == Copy(r3, "state", event, "state")
        r5 == Set(r4, "running", TruthyFlag(event, "running"))
        r6 == Set(r5, "role", "assistant")
        r7 == Copy(r6, "nodeName", event, "nodeName")
        r8 == Copy(r7, "runId", event, "runId")
        r9 == Set(r8, "active", TruthyFlag(event, "active"))
        r10 == Set(r9, "createdAt", "now")
    IN  Set(r10, "status", "SUCCESS")

\* Mutant: the record is built without the event's value
LangGraphInterruptEventNoValue(event) ==
    LET r0 == Set(Blank, "typename", "LangGraphInterruptEvent")
        r1 == Set(r0, "type", "MetaEvent")
    IN  Set(r1, "name", "LANG_GRAPH_INTERRUPT_EVENT")

LangGraphInterruptEvent(event) ==
    LET r0 == Set(Blank, "typename", "LangGraphInterruptEvent")
        r1 == Set(r0, "type", "MetaEvent")
        r2 == Set(r1, "name", "LANG_GRAPH_INTERRUPT_EVENT")
    IN  Copy(r2, "value", event, "value")

AGUIError(event, url) ==
    CopilotKitLowLevelError(
        IF Truthy(event, "message") THEN event.message ELSE "AG_UI Error",
        IF url # "" THEN url ELSE "ag_ui_agent",
        IF Truthy(event, "message") THEN event.message ELSE "Unknown AG_UI error occurred")

UnhandledEvent(event, rid) ==
    LET r0 == Set(Blank, "typename", "TextMessageOutput")
        r1 == Set(r0, "id", IF Truthy(event, "id") THEN event.id ELSE rid)
        r2 == Set(r1, "createdAt", "now")
        r3 == Set(r2, "content",
                  IF "content" \in event.has /\ event.content # <<>>
                  THEN event.content ELSE <<>>)
        r4 == Set(r3, "role", "assistant")
        r5 == Set(r4, "status", "SUCCESS")
    IN  Spread(r5, event)

convertAGUIEventToGQL(event, rid, url) ==
    CASE event.type = "text_message_start" -> Returned(TextMessageStart(event, rid))
      [] event.type = "text_message_content" -> Returned(TextMessageContent(event))
      [] event.type = "text_message_end" -> Returned(TextMessageEnd(event))
      [] event.type = "action_execution_start" -> Returned(ActionExecutionStart(event))
      [] event.type = "action_execution_args" -> Returned(ActionExecutionArgs(event))
      [] event.type = "action_execution_end" -> Returned(ActionExecutionEnd(event))
      [] event.type = "agent_state_message" -> Returned(AgentStateMessage(event, rid))
      [] event.type = "meta_event" ->
            IF "name" \in event.has /\ event.name = "langgraph_interrupt"
            THEN Returned(LangGraphInterruptEvent(event))
            ELSE ReturnedNull
      [] event.type = "error" -> Thrown(AGUIError(event, url))
      [] OTHER -> Returned(UnhandledEvent(event, rid))

(***************************************************************************)
(* Protocol events the upstream agent can send.                            *)
(***************************************************************************)
Event(type) == Set(Blank, "type", type)

TextStart(mid) == Set(Event("text_message_start"), "messageId", mid)
TextContent(mid, delta) ==
    Set(Set(Event("text_message_content"), "messageId", mid), "content", delta)
TextEnd(mid) == Set(Event("text_message_end"), "messageId", mid)
ActionStart(aid) ==
    Set(Set(Event("action_execution_start"), "actionExecutionId", aid), "actionName", "act")
ActionArgs(aid) ==
    Set(Set(Event("action_execution_args"), "actionExecutionId", aid), "args", "{}")
ActionEnd(aid) == Set(Event("action_execution_end"), "actionExecutionId", aid)
AgentState == Set(Set(Event("agent_state_message"), "agentName", "agent"), "running", TRUE)
MetaEvent(name) == Set(Set(Event("meta_event"), "name", name), "value", "v")
ErrorEvent(msg) == Set(Event("error"), "message", msg)

Deltas == {<<"a">>, <<"b">>}

TextEvents ==
    {TextStart(m) : m \in MessageIds} \cup {Event("text_message_start")}
    \cup {TextContent(m, d) : m \in MessageIds, d \in Deltas}
    \cup {TextEnd(m) : m \in MessageIds}

OtherEvents ==
    { ActionStart("m1"), ActionArgs("m1"), ActionEnd("m1"), AgentState,
      MetaEvent("langgraph_interrupt"), MetaEvent("other"),
      ErrorEvent("boom"), Event("error"),
      Event("custom"), Set(Set(Event("custom"), "id", "m1"), "status", "PENDING") }

Events == TextEvents \cup OtherEvents

(***************************************************************************)
(* WHATWG ReadableStream with a default controller and one reader, as far  *)
(* as generateCopilotResponse uses it.  A stream value holds               *)
(*   state, closeRequested, queue, storedError   (stream and controller)   *)
(*   readPending   a read request of the reader is waiting for a chunk     *)
(*   readResult    how the promise of the last reader.read() settled, not  *)
(*                 yet seen by the awaiting pump                           *)
(***************************************************************************)
NoResult == [kind |-> "none", seq |-> 0, rec |-> Blank, err |-> NoError]
ResultValue(chunk) == [kind |-> "value", seq |-> chunk.seq, rec |-> chunk.rec, err |-> NoError]
ResultDone == [kind |-> "done", seq |-> 0, rec |-> Blank, err |-> NoError]
ResultReject(e) == [kind |-> "reject", seq |-> 0, rec |-> Blank, err |-> e]

NewStream ==
    [ state |-> "readable", closeRequested |-> FALSE, queue |-> <<>>,
      storedError |-> NoError, readPending |-> FALSE, readResult |-> NoResult ]

TypeError(msg) == [kind |-> "TypeError", url |-> "", message |-> msg, inner |-> ""]

\* ReadableStreamDefaultControllerCanCloseOrEnqueue
CanCloseOrEnqueue(st) == ~st.closeRequested /\ st.state = "readable"

\* ReadableStreamClose: pending read requests resolve with done
StreamClose(st) ==
    [st EXCEPT !.state = "closed",
               !.readPending = FALSE,
               !.readResult = IF st.readPending THEN ResultDone ELSE @]

\* Mutant: a chunk is put at the head of the queue
CtrlEnqueueFront(st, chunk) ==
    IF ~CanCloseOrEnqueue(st)
    THEN [st |-> st, threw |-> TRUE]
    ELSE IF st.readPending
         THEN [st |-> [st EXCEPT !.readPending = FALSE, !.readResult = ResultValue(chunk)],
               threw |-> FALSE]
         ELSE [st |-> [st EXCEPT !.queue = <<chunk>> \o @], threw |-> FALSE]

\* controller.enqueue(chunk): [st, threw]
CtrlEnqueue(st, chunk) ==
    IF ~CanCloseOrEnqueue(st)
    THEN [st |-> st, threw |-> TRUE]
    ELSE IF st.readPending
         THEN [st |-> [st EXCEPT !.readPending = FALSE, !.readResult = ResultValue(chunk)],
               threw |-> FALSE]
         ELSE [st |-> [st EXCEPT !.queue = Append(@, chunk)], threw |-> FALSE]

\* controller.close(): [st, threw]
CtrlClose(st) ==
    IF ~CanCloseOrEnqueue(st)
    THEN [st |-> st, threw |-> TRUE]
    ELSE LET s1 == [st EXCEPT !.closeRequested = TRUE]
         IN  [st |-> IF s1.queue = <<>> THEN StreamClose(s1) ELSE s1, threw |-> FALSE]

\* controller.error(e): a no-op unless the stream is readable
CtrlError(st, e) ==
    IF st.state # "readable"
    THEN st
    ELSE [st EXCEPT !.queue = <<>>,
                    !.state = "errored",
                    !.storedError = e,
                    !.readPending = FALSE,
                    !.readResult = IF st.readPending THEN ResultReject(e) ELSE @]

\* reader.read()
ReaderRead(st) ==
    CASE st.state = "closed" -> [st EXCEPT !.readResult = ResultDone]
      [] st.state = "errored" -> [st EXCEPT !.readResult = ResultReject(st.storedError)]
      [] OTHER ->
            IF st.queue # <<>>
            THEN LET s1 == [st EXCEPT !.queue = Tail(@),
                                      !.readResult = ResultValue(Head(st.queue))]
                 IN  IF s1.closeRequested /\ s1.queue = <<>>
                     THEN [s1 EXCEPT !.state = "closed"]
                     ELSE s1
            ELSE [st EXCEPT !.readPending = TRUE]

\* reader.cancel()
ReaderCancel(st) ==
    IF st.state # "readable"
    THEN st
    ELSE [StreamClose(st) EXCEPT !.queue = <<>>]

(***************************************************************************)
(* Handlers of generateCopilotResponse.  A world w holds what a handler    *)
(* can change: the stream, the handleErrors log, the uncaught flag.        *)
(***************************************************************************)
World == [st |-> stream, errs |-> handleErrorsLog, uncaught |-> uncaught]

\* Mutant: the catch block reports the error and leaves the stream readable
CatchInStartNoError(w, e, aborted) == [w EXCEPT !.errs = Append(@, e)]

\* catch (error) { this.handleErrors?.(error); if (!signal?.aborted) controller.error(error) }
CatchInStart(w, e, aborted) ==
    [w EXCEPT !.errs = Append(@, e),
              !.st = IF aborted THEN @ ELSE CtrlError(@, e)]

\* responseObservable.subscribe({ next })
OnNext(w, event, seq, rid, url, aborted) ==
    IF aborted
    THEN w
    ELSE LET r == convertAGUIEventToGQL(event, rid, url) IN
         CASE r.kind = "throw" -> CatchInStart(w, r.err, aborted)
           [] r.kind = "null" -> w
           [] OTHER ->
                LET q == CtrlEnqueue(w.st, [seq |-> seq, rec |-> r.rec]) IN
                IF q.threw
                THEN CatchInStart(w, TypeError("enqueue"), aborted)
                ELSE [w EXCEPT !.st = q.st]

\* abortHandler, and the close() of the error / complete observers: an
\* exception of controller.close() escapes the callback
CloseInCallback(w) ==
    LET c == CtrlClose(w.st) IN
    [w EXCEPT !.st = c.st, !.uncaught = @ \/ c.threw]

\* responseObservable.subscribe({ error })
OnError(w, e, aborted) ==
    IF aborted
    THEN CloseInCallback(w)
    ELSE [w EXCEPT !.errs = Append(@, e), !.st = CtrlError(@, e)]

\* Mutant: the complete observer leaves the stream open
OnCompleteNoClose(w) == w

\* responseObservable.subscribe({ complete })
OnComplete(w) == CloseInCallback(w)

\* start(controller) of the ReadableStream: [w, upstream, listener]
Start(w, startThrows, aborted) ==
    IF aborted
    THEN [w |-> [w EXCEPT !.st = CtrlClose(@).st], upstream |-> "none", listener |-> FALSE]
    ELSE IF startThrows
         THEN [w |-> CatchInStart(w, [kind |-> "SyntaxError", url |-> "", message |-> "JSON.parse", inner |-> ""], aborted),
               upstream |-> "none", listener |-> FALSE]
         ELSE [w |-> w, upstream |-> "active", listener |-> TRUE]

\* Observer callbacks
Cb(name, seq, rec, err) == [cb |-> name, seq |-> seq, rec |-> rec, err |-> err]
CbNext(r) == Cb("next", r.seq, r.rec, NoError)
CbError(e) == Cb("error", 0, Blank, e)
CbComplete == Cb("complete", 0, Blank, NoError)

\* Mutant: pump() without the abort check before observer.next
PumpStepNoAbortCheck(st, log, r, aborted) ==
    LET seen == [st EXCEPT !.readResult = NoResult] IN
    CASE r.kind = "reject" ->
            [log |-> Append(log, IF aborted THEN CbComplete ELSE CbError(r.err)),
             st |-> seen, pc |-> "done"]
      [] r.kind = "done" ->
            [log |-> Append(log, CbComplete), st |-> seen, pc |-> "done"]
      [] OTHER ->
            [log |-> Append(log, CbNext(r)), st |-> ReaderRead(seen), pc |-> "await"]

\* pump() after `await reader.read()` has settled with result r:
\* [log, st, pc]
PumpStep(st, log, r, aborted) ==
    LET seen == [st EXCEPT !.readResult = NoResult] IN
    CASE r.kind = "reject" ->
            [log |-> Append(log, IF aborted THEN CbComplete ELSE CbError(r.err)),
             st |-> seen, pc |-> "done"]
      [] r.kind = "done" ->
            [log |-> Append(log, CbComplete), st |-> seen, pc |-> "done"]
      [] OTHER ->
            IF aborted
            THEN [log |-> Append(log, CbComplete), st |-> seen, pc |-> "done"]
            ELSE [log |-> Append(log, CbNext(r)), st |-> ReaderRead(seen), pc |-> "await"]

StreamEvents ==
    { TextContent("m1", <<"a">>), TextEnd("m1"), MetaEvent("other"), ErrorEvent("boom") }

UpstreamFailure == [kind |-> "Error", url |-> "", message |-> "upstream", inner |-> ""]
ConversionFailure == [kind |-> "Error", url |-> "", message |-> "gqlToAGUI", inner |-> ""]

NoAbort == [log |-> -1, events |-> -1]

DcPending == [kind |-> "pending", data |-> <<>>, err |-> <<>>]
NoResponse == [kind |-> "none", status |-> 0, mismatch |-> FALSE, message |-> ""]

DcIdle ==
    /\ dcApiKey = FALSE
    /\ dcAborted = FALSE
    /\ dcCalledAborted = FALSE
    /\ dcPhase = "idle"
    /\ dcResponse = NoResponse
    /\ dcRequests = 0
    /\ dcPromise = DcPending
    /\ dcWarnings = <<>>
    /\ dcGqlErrors = <<>>
    /\ dcSubs = <<>>

Hooks == {"useDirectAgUiRuntimeClient", "useCopilotAguiClients"}

\* useRef<{ message: string; timestamp: number } | null>(null)
NullRef == [set |-> FALSE, message |-> <<>>, timestamp |-> 0]

DdIdle ==
    /\ now = 0
    /\ isDev = FALSE
    /\ onError = "undefined"
    /\ publicApiKey = FALSE
    /\ lastStructuredErrorRef = [h \in Hooks |-> NullRef]
    /\ banners = <<>>
    /\ arrivals = <<>>

\* endpoints: undefined, or a map from agent names to urls
NoEndpoints == [defined |-> FALSE, map |-> <<>>]

\* no value built
RtIdle == rtInput = <<>> /\ rtData = <<>> /\ rtCalls = <<>>

\* no availableAgents or loadAgentState call
RqIdle == rqHandler = "undefined" /\ rqApiKey = FALSE /\ rqLog = <<>>

CsIdle ==
    /\ csError = [message |-> "", hasExtensions |-> FALSE, code |-> "", hasOriginal |-> FALSE, originalMessage |-> "", hasStack |-> FALSE, stack |-> <<>>]
    /\ csShown = <<>>

AgIdle ==
    /\ agentThreadId = "default-thread"
    /\ agInv = <<>>
    /\ agHandleErrors = <<>>

CvIdle ==
    /\ cvPhase = "input"
    /\ cvMessages = <<>>
    /\ cvUuids = <<>>
    /\ cvAgui = <<>>
    /\ cvBack = <<>>

FcIdle ==
    /\ fcCalls = <<>>
    /\ fcConstructed = <<>>

ClIdle ==
    /\ rendered = FALSE
    /\ options = [endpoints |-> NoEndpoints, enabled |-> "undefined"]
    /\ aguiClients = <<>>
    /\ errorSubscribers = {}
    /\ constructed = 0
    /\ lookups = <<>>

TrIdle ==
    /\ trEvents = <<>>
    /\ trOut = <<>>

StIdle ==
    /\ signalAborted = FALSE
    /\ gen = "idle"
    /\ upstream = "none"
    /\ upEvents = <<>>
    /\ listener = FALSE
    /\ stream = NewStream
    /\ pumpPc = "none"
    /\ subscribed = FALSE
    /\ unsubscribed = FALSE
    /\ timerPending = FALSE
    /\ obsLog = <<>>
    /\ handleErrorsLog = <<>>
    /\ uncaught = FALSE
    /\ abortAt = NoAbort
    /\ subscribedAt = -1

Init ==
    /\ clientUrl \in ClientUrls
    /\ StIdle
    /\ TrIdle
    /\ DcIdle
    /\ DdIdle
    /\ ClIdle
    /\ FcIdle
    /\ CvIdle
    /\ AgIdle
    /\ CsIdle
    /\ RqIdle
    /\ RtIdle

Terminated == \E i \in 1..Len(obsLog) : obsLog[i].cb \in {"complete", "error"}

\* generateCopilotResponse({data, properties, signal}); convThrows: gqlToAGUI
\* throws; startThrows: JSON.parse of an action schema or the agent run throws
Call(convThrows, startThrows) ==
    /\ gen = "idle"
    /\ IF convThrows
       THEN /\ gen' = "failed"
            /\ UNCHANGED <<upstream, listener, stream, handleErrorsLog, uncaught>>
       ELSE LET s == Start(World, startThrows, signalAborted) IN
            /\ gen' = "stream"
            /\ upstream' = s.upstream
            /\ listener' = s.listener
            /\ stream' = s.w.st
            /\ handleErrorsLog' = s.w.errs
            /\ uncaught' = s.w.uncaught
    /\ UNCHANGED <<notStream, signalAborted, upEvents, pumpPc, subscribed,
                   unsubscribed, timerPending, obsLog, abortAt, subscribedAt>>

\* controller.abort() of the caller: the signal fires, abortHandler runs
Abort ==
    /\ ~signalAborted
    /\ signalAborted' = TRUE
    /\ LET w == IF listener THEN CloseInCallback(World) ELSE World IN
        /\ stream' = w.st
        /\ uncaught' = w.uncaught
    /\ abortAt' = IF subscribed /\ ~Terminated
                  THEN [log |-> Len(obsLog), events |-> Len(upEvents)]
                  ELSE NoAbort
    /\ UNCHANGED <<notStream, gen, upstream, upEvents, listener, pumpPc,
                   subscribed, unsubscribed, timerPending, obsLog, handleErrorsLog,
                   subscribedAt>>

\* The upstream observable emits an event
UpstreamNext(event, rid) ==
    /\ upstream = "active"
    /\ Len(upEvents) < MaxEvents
    /\ upEvents' = Append(upEvents, event)
    /\ LET w == OnNext(World, event, Len(upEvents) + 1, rid, clientUrl, signalAborted) IN
        /\ stream' = w.st
        /\ handleErrorsLog' = w.errs
        /\ uncaught' = w.uncaught
    /\ UNCHANGED <<notStream, signalAborted, gen, upstream, listener, pumpPc,
                   subscribed, unsubscribed, timerPending, obsLog, abortAt, subscribedAt>>

\* The upstream observable fails
UpstreamError ==
    /\ upstream = "active"
    /\ upstream' = "errored"
    /\ listener' = FALSE
    /\ LET w == OnError(World, UpstreamFailure, signalAborted) IN
        /\ stream' = w.st
        /\ handleErrorsLog' = w.errs
        /\ uncaught' = w.uncaught
    /\ UNCHANGED <<notStream, signalAborted, gen, upEvents, pumpPc, subscribed,
                   unsubscribed, timerPending, obsLog, abortAt, subscribedAt>>

\* The upstream observable completes
UpstreamComplete ==
    /\ upstream = "active"
    /\ upstream' = "completed"
    /\ listener' = FALSE
    /\ LET w == OnComplete(World) IN
        /\ stream' = w.st
        /\ handleErrorsLog' = w.errs
        /\ uncaught' = w.uncaught
    /\ UNCHANGED <<notStream, signalAborted, gen, upEvents, pumpPc, subscribed,
                   unsubscribed, timerPending, obsLog, abortAt, subscribedAt>>

\* result.subscribe(observer)
Subscribe ==
    /\ gen \in {"stream", "failed"}
    /\ ~subscribed
    /\ subscribed' = TRUE
    /\ subscribedAt' = Len(upEvents)
    /\ IF gen = "failed"
       THEN /\ timerPending' = TRUE
            /\ UNCHANGED <<stream, pumpPc, obsLog>>
       ELSE IF signalAborted
            THEN /\ obsLog' = Append(obsLog, CbComplete)
                 /\ UNCHANGED <<stream, pumpPc, timerPending>>
            ELSE /\ stream' = ReaderRead(stream)
                 /\ pumpPc' = "await"
                 /\ UNCHANGED <<obsLog, timerPending>>
    /\ UNCHANGED <<notStream, signalAborted, gen, upstream, upEvents, listener,
                   unsubscribed, handleErrorsLog, uncaught, abortAt>>

\* The setTimeout(..., 0) callback of the failed observable
FailedTimer ==
    /\ timerPending
    /\ timerPending' = FALSE
    /\ obsLog' = Append(obsLog, IF signalAborted THEN CbComplete ELSE CbError(ConversionFailure))
    /\ UNCHANGED <<notStream, signalAborted, gen, upstream, upEvents, listener,
                   stream, pumpPc, subscribed, unsubscribed, handleErrorsLog, uncaught,
                   abortAt, subscribedAt>>

\* pump() resumes after `await reader.read()`
PumpResume ==
    /\ pumpPc = "await"
    /\ stream.readResult.kind # "none"
    /\ LET p == PumpStep(stream, obsLog, stream.readResult, signalAborted) IN
        /\ obsLog' = p.log
        /\ stream' = p.st
        /\ pumpPc' = p.pc
    /\ UNCHANGED <<notStream, signalAborted, gen, upstream, upEvents, listener,
                   subscribed, unsubscribed, timerPending, handleErrorsLog, uncaught,
                   abortAt, subscribedAt>>

\* The caller invokes the unsubscribe function: reader.cancel()
Unsubscribe ==
    /\ subscribed
    /\ ~unsubscribed
    /\ unsubscribed' = TRUE
    /\ stream' = IF pumpPc # "none" THEN ReaderCancel(stream) ELSE stream
    /\ UNCHANGED <<notStream, signalAborted, gen, upstream, upEvents, listener,
                   pumpPc, subscribed, timerPending, obsLog, handleErrorsLog, uncaught,
                   abortAt, subscribedAt>>

Next ==
    \/ \E convThrows \in BOOLEAN, startThrows \in BOOLEAN : Call(convThrows, startThrows)
    \/ Abort
    \/ \E event \in StreamEvents, rid \in RandomIds : UpstreamNext(event, rid)
    \/ UpstreamError
    \/ UpstreamComplete
    \/ Subscribe
    \/ FailedTimer
    \/ PumpResume
    \/ Unsubscribe

Spec == Init /\ [][Next]_vars

\* The runs in which the caller never aborts the signal and the upstream
\* observable never fails.  pump() is an async function: the continuation of
\* `await reader.read()` is a job the event loop runs once the read has
\* settled, and the timer of the failed observable fires.
NextClean ==
    \/ \E convThrows \in BOOLEAN, startThrows \in BOOLEAN : Call(convThrows, startThrows)
    \/ \E event \in StreamEvents, rid \in RandomIds : UpstreamNext(event, rid)
    \/ UpstreamComplete
    \/ Subscribe
    \/ FailedTimer
    \/ PumpResume
    \/ Unsubscribe

SpecClean == Init /\ [][NextClean]_vars /\ WF_vars(PumpResume) /\ WF_vars(FailedTimer)

\* The runs of an upstream that sends meta events: with the name
\* langgraph_interrupt and a value, with that name and no value, with another
\* name, and an ordinary record between them
MetaStreamEvents ==
    { MetaEvent("langgraph_interrupt"), Set(Event("meta_event"), "name", "langgraph_interrupt"),
      MetaEvent("other"), TextEnd("m1") }

NextMeta ==
    \/ \E convThrows \in BOOLEAN, startThrows \in BOOLEAN : Call(convThrows, startThrows)
    \/ Abort
    \/ \E event \in MetaStreamEvents, rid \in RandomIds : UpstreamNext(event, rid)
    \/ UpstreamError
    \/ UpstreamComplete
    \/ Subscribe
    \/ FailedTimer
    \/ PumpResume
    \/ Unsubscribe

SpecMeta == Init /\ [][NextMeta]_vars

(***************************************************************************)
(* Claims about one generateCopilotResponse stream.                        *)
(***************************************************************************)
CountCb(name) == Cardinality({i \in 1..Len(obsLog) : obsLog[i].cb = name})

\* Nothing is left to run for the subscriber
Quiescent == IF gen = "failed" THEN subscribed /\ ~timerPending ELSE pumpPc = "done"

\* C1: once the signal has fired on a live subscription (after subscribe,
\* before complete or error), the observer's next and error are never called
\* again and complete is called exactly once: every later callback is
\* complete, there is at most one, the pump is never left waiting for a read
\* that does not settle, and when the pump has ended there is exactly one.
C1_AbortSilences ==
    abortAt.log >= 0 =>
        /\ \A i \in (abortAt.log + 1)..Len(obsLog) : obsLog[i].cb = "complete"
        /\ CountCb("complete") <= 1
        /\ pumpPc = "await" => stream.readResult.kind # "none"
        /\ Quiescent => CountCb("complete") = 1

C1_Witness ==
    /\ abortAt.log >= 1
    /\ pumpPc = "done"
    /\ Len(upEvents) > abortAt.events
    /\ upstream = "errored"
    /\ CountCb("complete") = 1

\* C4: the records passed to next are the translations of upstream events,
\* in the order the events were received, none twice.
C4_DeliveryOrder ==
    /\ \A i, j \in 1..Len(obsLog) :
            (i < j /\ obsLog[i].cb = "next" /\ obsLog[j].cb = "next")
                => obsLog[i].seq < obsLog[j].seq
    /\ \A i \in 1..Len(obsLog) :
            obsLog[i].cb = "next" =>
                /\ obsLog[i].seq \in 1..Len(upEvents)
                /\ \E rid \in RandomIds :
                        convertAGUIEventToGQL(upEvents[obsLog[i].seq], rid, clientUrl)
                            = Returned(obsLog[i].rec)

C4_Witness ==
    \E i, j \in 1..Len(obsLog) :
        /\ i < j
        /\ obsLog[i].cb = "next" /\ obsLog[j].cb = "next"
        /\ obsLog[i].seq <= subscribedAt
        /\ subscribedAt < obsLog[j].seq

Buffered == {stream.queue[i].seq : i \in 1..Len(stream.queue)}
             \cup (IF stream.readResult.kind = "value" THEN {stream.readResult.seq} ELSE {})

Delivered == {obsLog[i].seq : i \in {n \in 1..Len(obsLog) : obsLog[n].cb = "next"}}

\* C5: an `error` event received on a stream that is not cancelled yields no
\* record; a low-level error with the agent URL and the event message is
\* handed to handleErrors; no record of a later event is buffered or
\* delivered; and the subscriber ends with its error callback, not complete.
C5_ErrorEvent ==
    \A k \in 1..Len(upEvents) :
        (upEvents[k].type = "error" /\ ~signalAborted /\ ~unsubscribed) =>
            /\ k \notin (Buffered \cup Delivered)
            /\ \E i \in 1..Len(handleErrorsLog) :
                    /\ handleErrorsLog[i].kind = "CopilotKitLowLevelError"
                    /\ handleErrorsLog[i].message = upEvents[k].message
                    /\ clientUrl # "" => handleErrorsLog[i].url = clientUrl
            /\ \A n \in Buffered \cup Delivered : n < k
            /\ pumpPc = "done" =>
                    /\ CountCb("error") = 1
                    /\ CountCb("complete") = 0
                    /\ obsLog[Len(obsLog)].cb = "error"
                    /\ \E i \in 1..Len(handleErrorsLog) :
                            handleErrorsLog[i] = obsLog[Len(obsLog)].err

C5_Witness ==
    /\ ~signalAborted /\ ~unsubscribed
    /\ clientUrl # ""
    /\ Len(upEvents) = 3
    /\ upEvents[1].type = "text_message_content"
    /\ upEvents[2].type = "error"
    /\ upEvents[3].type = "text_message_end"
    /\ pumpPc = "done"
    /\ Delivered = {1}
    /\ obsLog[Len(obsLog)].cb = "error"
    /\ obsLog[Len(obsLog)].err.kind = "CopilotKitLowLevelError"

\* C22 as stated: when the cancellation signal fires during a stream, the
\* underlying agent run is aborted: the subscription to the upstream agent
\* observable is torn down, and no upstream event received after the abort
\* is processed.
C22_AbortTearsDownUpstream ==
    (gen = "stream" /\ signalAborted) =>
        /\ upstream # "active"
        /\ abortAt # NoAbort => Len(upEvents) = abortAt.events

\* What does hold: an event the upstream delivers after the signal has fired
\* is received and skipped: it changes neither the stream, nor the error
\* log, nor what the observer has been given
AbortedEventsSkipped ==
    [][(signalAborted /\ upEvents' # upEvents) =>
            (stream' = stream /\ handleErrorsLog' = handleErrorsLog /\ obsLog' = obsLog)]_vars

\* What does hold (C23 for this client): when the signal is already aborted
\* at the call, no agent run is started and the observer is given nothing
\* but one completion
StartedAborted ==
    /\ gen = "stream"
    /\ signalAborted
    /\ upstream = "none"
    /\ handleErrorsLog = <<>>
AbortedAtCallOnlyCompletes ==
    StartedAborted =>
        /\ upEvents = <<>>
        /\ obsLog \in {<<>>, <<CbComplete>>}

\* Event i of the upstream is translated to a record / makes the translation throw
YieldsRecord(i) ==
    \E rid \in RandomIds : convertAGUIEventToGQL(upEvents[i], rid, clientUrl).kind = "record"
Fails(i) ==
    \E rid \in RandomIds : convertAGUIEventToGQL(upEvents[i], rid, clientUrl).kind = "throw"

\* The sequence numbers of the next callbacks, in the order of the callbacks
NextSeqs == [k \in 1..CountCb("next") |->
                obsLog[CHOOSE n \in 1..Len(obsLog) :
                          /\ obsLog[n].cb = "next"
                          /\ Cardinality({m \in 1..n : obsLog[m].cb = "next"}) = k].seq]

\* The upstream has completed without a failing event
CleanRun ==
    /\ gen = "stream" /\ upstream = "completed" /\ subscribed
    /\ \A i \in 1..Len(upEvents) : ~Fails(i)

\* One next per translated record, in order, then complete, and nothing else
AllDelivered ==
    /\ Len(obsLog) = CountCb("next") + 1
    /\ obsLog[Len(obsLog)] = CbComplete
    /\ {NextSeqs[k] : k \in 1..CountCb("next")} = {i \in 1..Len(upEvents) : YieldsRecord(i)}
    /\ \A k \in 1..(CountCb("next") - 1) : NextSeqs[k] < NextSeqs[k + 1]

\* C33: if the upstream observable completes without error and the signal is
\* never aborted, the subscriber eventually receives one next per translated
\* record, every record and none lost, then complete exactly once, and never
\* error.  (A subscriber that unsubscribes asks for no more.)
C33_CleanRunDelivered ==
    CleanRun ~> (AllDelivered \/ signalAborted \/ unsubscribed)

C33_Witness ==
    /\ CleanRun /\ ~signalAborted /\ ~unsubscribed
    /\ AllDelivered
    /\ CountCb("next") = 2
    /\ Len(upEvents) = 3
    /\ subscribedAt = 1

\* The subscriber's error callback has fired on a stream that was neither
\* aborted nor unsubscribed
FailedLive ==
    /\ gen = "stream" /\ ~signalAborted /\ ~unsubscribed
    /\ CountCb("error") >= 1

\* Event k was received before any failing event
BeforeFailure(k) == \A j \in 1..k : ~Fails(j)

\* C34: every record translated from an event received before a failing
\* event (an `error` event, a translation exception or an upstream error) is
\* delivered to the subscriber through next before the subscriber's error
\* callback fires; records already buffered in the stream are not discarded
\* by the failure.
C34_BufferedSurviveFailure ==
    FailedLive =>
        \A k \in 1..Len(upEvents) :
            (YieldsRecord(k) /\ BeforeFailure(k)) => k \in Delivered

\* What holds: the error callback is the last callback, the records that
\* were delivered are a prefix of the records translated before the failure,
\* and the stream holds none of the others any more.
FailureDropsBuffered ==
    FailedLive =>
        /\ obsLog[Len(obsLog)].cb = "error"
        /\ CountCb("error") = 1
        /\ stream.queue = <<>>
        /\ \A k \in Delivered :
              /\ YieldsRecord(k) /\ BeforeFailure(k)
              /\ \A j \in 1..k : YieldsRecord(j) => j \in Delivered

\* C35: handleErrors is invoked at most once per generateCopilotResponse
\* stream, for every sequence of upstream events, including events that
\* arrive after an `error` event has errored the stream or after the
\* subscriber has unsubscribed.
C35_HandleErrorsOnce == Len(handleErrorsLog) <= 1

\* What holds: the subscriber's error callback fires at most once, with the
\* first error handed to handleErrors on the stream; every later call of
\* handleErrors is for a further failing event or for the TypeError of an
\* enqueue on the stream that is no longer readable.
LaterErrorsAreEnqueueFailures ==
    /\ CountCb("error") <= 1
    /\ \A n \in 1..Len(obsLog) :
          (obsLog[n].cb = "error" /\ gen = "stream") => obsLog[n].err = handleErrorsLog[1]
    /\ \A i \in 2..Len(handleErrorsLog) :
          \/ handleErrorsLog[i] = TypeError("enqueue")
          \/ handleErrorsLog[i].kind = "CopilotKitLowLevelError"
          \/ handleErrorsLog[i] = UpstreamFailure

\* C37: after the unsubscribe function returned by subscribe has been
\* called, none of the subscriber's next, error or complete callbacks is
\* invoked any more, whatever the upstream agent emits afterwards.
C37_SilentAfterUnsubscribe == [][unsubscribed => obsLog' = obsLog]_vars

\* What holds: after unsubscribe no record of a later upstream event is
\* delivered.  The callbacks still made are the answer to the read that
\* reader.cancel() settles (complete), the answer to a read that had settled
\* before the cancel, and the timer callback of the failed observable.
OnlySettledReadsAfterUnsubscribe ==
    [][(unsubscribed /\ obsLog' # obsLog) =>
          /\ Len(obsLog') = Len(obsLog) + 1
          /\ upEvents' = upEvents
          /\ \/ gen = "failed" /\ timerPending
             \/ pumpPc = "await" /\ stream.readResult.kind # "none"]_vars

\* The step is the reception of one upstream event
EventReceived == Len(upEvents') = Len(upEvents) + 1
LatestEvent == upEvents'[Len(upEvents')]
IsInterrupt(e) == e.type = "meta_event" /\ "name" \in e.has /\ e.name = "langgraph_interrupt"

\* rec is the MetaEvent record of the interrupt event e, with e's value
InterruptRecordOf(rec, e) ==
    /\ rec.typename = "LangGraphInterruptEvent"
    /\ rec.type = "MetaEvent"
    /\ rec.name = "LANG_GRAPH_INTERRUPT_EVENT"
    /\ ("value" \in rec.has) = ("value" \in e.has)
    /\ rec.value = e.value

\* The step hands exactly one chunk to the stream: to the waiting read, or to
\* the end of the queue
EnqueuedOne ==
    IF stream.readPending
    THEN /\ stream'.queue = stream.queue
         /\ ~stream'.readPending
         /\ stream'.readResult.kind = "value"
    ELSE /\ Len(stream'.queue) = Len(stream.queue) + 1
         /\ SubSeq(stream'.queue, 1, Len(stream.queue)) = stream.queue

\* The record of that chunk
HandedOver ==
    IF stream.readPending THEN stream'.readResult.rec
    ELSE stream'.queue[Len(stream'.queue)].rec

\* C40: a meta_event named langgraph_interrupt yields exactly one MetaEvent
\* record carrying the event's value unchanged; a meta_event with any other
\* name yields no record at all: it is dropped, nothing is enqueued, and the
\* stream is not errored.
C40_MetaEvents ==
    [][(EventReceived /\ LatestEvent.type = "meta_event") =>
          IF IsInterrupt(LatestEvent)
          THEN (~signalAborted /\ CanCloseOrEnqueue(stream)) =>
                  /\ EnqueuedOne
                  /\ InterruptRecordOf(HandedOver, LatestEvent)
                  /\ stream'.state = "readable"
                  /\ handleErrorsLog' = handleErrorsLog
          ELSE /\ stream' = stream
               /\ handleErrorsLog' = handleErrorsLog
               /\ obsLog' = obsLog]_vars

\* The subscriber has received the record of an interrupt event that came
\* after a meta event of another name, which left no trace
C40_Witness ==
    /\ Len(upEvents) = 2
    /\ upEvents[1] = MetaEvent("other")
    /\ upEvents[2] = MetaEvent("langgraph_interrupt")
    /\ Len(obsLog) = 1
    /\ obsLog[1].cb = "next"
    /\ obsLog[1].seq = 2
    /\ InterruptRecordOf(obsLog[1].rec, upEvents[2])
    /\ obsLog[1].rec.value = "v"
    /\ handleErrorsLog = <<>>

(***************************************************************************)
(* DirectAgUiRuntimeClient: createFetchFn, generateCopilotResponse,        *)
(* asStream.  The client is the one useDirectAgUiRuntimeClient builds:     *)
(* handleGQLErrors and handleGQLWarning are set.                           *)
(***************************************************************************)
\* `${this.baseUrl}/generate`
RequestUrl == "baseUrl/generate"

\* Error objects: class, message, status, wrapped error, url ("" when the
\* constructor is given none)
DcError(kind, message, status, cause) ==
    [kind |-> kind, message |-> message, status |-> status, cause |-> cause, url |-> ""]

\* error.message.includes("BodyStreamBuffer was aborted") ||
\* error.message.includes("signal is aborted without reason")
IsAbortMessage(message) ==
    message \in {"BodyStreamBuffer was aborted", "signal is aborted without reason"}

\* error instanceof CopilotKitError
IsCopilotKitError(e) ==
    e.kind \in {"CopilotKitVersionMismatchError", "ResolvedCopilotKitError",
                "CopilotKitLowLevelError"}

\* (error as any).extensions?.visibility : CopilotKitError sets extensions.visibility
HasVisibility(e) == IsCopilotKitError(e) \/ e.kind = "SyntheticGraphQLError"

\* catch block of the fetch function
FetchCatch(e) ==
    IF IsAbortMessage(e.message) THEN e
    ELSE IF IsCopilotKitError(e) THEN e
    ELSE [DcError("CopilotKitLowLevelError", "low level error", 0, e.message)
            EXCEPT !.url = RequestUrl]

Statuses == {200, 204, 302, 400, 404, 500, 503}

\* response.ok
Ok(status) == status >= 200 /\ status <= 299

\* Outcomes of fetch(url, {signal}): a response (status, whether the runtime
\* version header mismatches the client version) or a rejection
FetchResponses == [kind : {"response"}, status : Statuses, mismatch : BOOLEAN, message : {""}]
FetchRejections(aborted) ==
    [kind : {"reject"}, status : {0}, mismatch : {FALSE},
     message : IF aborted
               THEN {"signal is aborted without reason", "The user aborted a request."}
               ELSE {"Failed to fetch"}]

\* Outcomes of response.json()
JsonBodies ==
    { [threadId |-> "t1", runId |-> "r1", messages |-> "absent", status |-> "absent"],
      [threadId |-> "t1", runId |-> "r1", messages |-> "m", status |-> "FAILED"] }
JsonRejections(aborted) ==
    {"Unexpected token"} \cup (IF aborted THEN {"BodyStreamBuffer was aborted"} ELSE {})

convertFromAgUiFormat(response) ==
    [ threadId |-> response.threadId,
      runId |-> response.runId,
      messages |-> IF response.messages = "absent" THEN "[]" ELSE response.messages,
      status |-> IF response.status = "absent" THEN "SUCCESS" ELSE response.status ]

\* The fetch function after `await fetch(...)` has settled with outcome o,
\* followed by the first lines of the .then handler:
\* [err, warn, json]: the error thrown (NoDcError if none), whether
\* handleGQLWarning is called, whether response.json() is awaited next
NoDcError == DcError("none", "", 0, "")

FetchSettled(o, apiKey) ==
    IF o.kind = "reject"
    THEN [err |-> FetchCatch(DcError("FetchError", o.message, 0, "")), warn |-> FALSE, json |-> FALSE]
    ELSE LET mismatch == ~apiKey /\ o.mismatch IN
         IF o.status # 200 /\ o.status >= 400 /\ o.status <= 500
         THEN [err |-> FetchCatch(IF mismatch
                                  THEN DcError("CopilotKitVersionMismatchError", "version mismatch", 0, "")
                                  ELSE DcError("ResolvedCopilotKitError", "resolved", o.status, "")),
               warn |-> FALSE, json |-> FALSE]
         ELSE IF ~Ok(o.status)
              THEN [err |-> DcError("Error", "HTTP", o.status, ""), warn |-> mismatch, json |-> FALSE]
              ELSE [err |-> NoDcError, warn |-> mismatch, json |-> TRUE]

\* result of the subscription handed to an observer: {data, error, hasNext}
DcData(d) == [kind |-> "data", data |-> d, err |-> NoDcError, hasNext |-> FALSE]
DcFailed(e) == [kind |-> "error", data |-> <<>>, err |-> e, hasNext |-> FALSE]

\* asStream: the observer given to source.subscribe, on stream st with the
\* handleGQLErrors log errs: [st, errs, threw].  controller.enqueue and
\* controller.close throw a TypeError when the stream is no longer readable
\* (its consumer has cancelled it); controller.error does not.
AsStreamObserver(st, errs, res) ==
    IF res.kind = "error"
    THEN IF IsAbortMessage(res.err.message)
         THEN IF ~res.hasNext
              THEN [st |-> CtrlClose(st).st, errs |-> errs, threw |-> CtrlClose(st).threw]
              ELSE [st |-> st, errs |-> errs, threw |-> FALSE]
         ELSE IF HasVisibility(res.err)
              THEN [st |-> st,
                    errs |-> Append(errs, [res.err EXCEPT !.kind = "SyntheticGraphQLError"]),
                    threw |-> FALSE]
              ELSE [st |-> CtrlError(st, res.err), errs |-> Append(errs, res.err),
                    threw |-> FALSE]
    ELSE LET q == CtrlEnqueue(st, [seq |-> 1, rec |-> res.data]) IN
         IF q.threw
         THEN [st |-> st, errs |-> errs, threw |-> TRUE]
         ELSE [st |-> IF ~res.hasNext THEN CtrlClose(q.st).st ELSE q.st, errs |-> errs,
               threw |-> FALSE]

\* What controller.enqueue throws on a stream that is not readable
InvalidState == DcError("TypeError", "Invalid state: Controller is already closed", 0, "")

\* subscribe(observer): the .then / .catch callbacks on responsePromise for
\* subscriber sub, with the handleGQLErrors log errs: [sub, errs].  The
\* .catch is chained after the .then, so it also runs when the observer
\* throws in the .then callback; what the observer throws inside the .catch
\* callback is an unhandled rejection.
Deliver(sub, errs, promise) ==
    LET res == IF promise.kind = "data" THEN DcData(promise.data) ELSE DcFailed(promise.err)
        errs1 == IF promise.kind = "error" THEN Append(errs, promise.err) ELSE errs
    IN  IF sub.kind = "stream"
        THEN LET a == AsStreamObserver(sub.st, errs1, res) IN
             IF a.threw /\ promise.kind = "data"
             THEN LET b == AsStreamObserver(a.st, Append(a.errs, InvalidState),
                                            DcFailed(InvalidState))
                  IN  [sub |-> [sub EXCEPT !.notified = TRUE,
                                           !.calls = @ \o <<res, DcFailed(InvalidState)>>,
                                           !.st = b.st,
                                           !.unhandled = b.threw],
                       errs |-> b.errs]
             ELSE [sub |-> [sub EXCEPT !.notified = TRUE, !.calls = Append(@, res),
                                       !.st = a.st, !.unhandled = a.threw],
                   errs |-> a.errs]
        ELSE [sub |-> [sub EXCEPT !.notified = TRUE, !.calls = Append(@, res)],
              errs |-> errs1]

DcInit ==
    /\ clientUrl \in ClientUrls
    /\ TrIdle
    /\ StIdle
    /\ dcApiKey \in BOOLEAN
    /\ dcAborted = FALSE
    /\ dcCalledAborted = FALSE
    /\ dcPhase = "idle"
    /\ dcResponse = NoResponse
    /\ dcRequests = 0
    /\ dcPromise = DcPending
    /\ dcWarnings = <<>>
    /\ dcGqlErrors = <<>>
    /\ dcSubs = <<>>
    /\ DdIdle
    /\ ClIdle
    /\ FcIdle
    /\ CvIdle
    /\ AgIdle
    /\ CsIdle
    /\ RqIdle
    /\ RtIdle

\* generateCopilotResponse({data, properties, signal}): fetch is called
DcCall ==
    /\ dcPhase = "idle"
    /\ dcPhase' = "fetching"
    /\ dcRequests' = dcRequests + 1
    /\ dcCalledAborted' = dcAborted
    /\ UNCHANGED <<notDirect, dcApiKey, dcResponse, dcAborted, dcPromise, dcWarnings, dcGqlErrors, dcSubs>>

\* The caller aborts the signal
DcAbort ==
    /\ ~dcAborted
    /\ dcAborted' = TRUE
    /\ UNCHANGED <<notDirect, dcApiKey, dcCalledAborted, dcResponse, dcPhase, dcRequests, dcPromise, dcWarnings,
                   dcGqlErrors, dcSubs>>

\* fetch() settles
DcFetchSettles(o) ==
    /\ dcPhase = "fetching"
    /\ LET f == FetchSettled(o, dcApiKey) IN
        /\ dcWarnings' = IF f.warn THEN Append(dcWarnings, "version mismatch") ELSE dcWarnings
        /\ IF f.json
           THEN /\ dcPhase' = "json"
                /\ UNCHANGED dcPromise
           ELSE /\ dcPhase' = "settled"
                /\ dcPromise' = [kind |-> "error", data |-> <<>>, err |-> f.err]
    /\ dcResponse' = o
    /\ UNCHANGED <<notDirect, dcApiKey, dcCalledAborted, dcAborted, dcRequests, dcGqlErrors, dcSubs>>

\* response.json() resolves with a body
DcJsonResolves(body) ==
    /\ dcPhase = "json"
    /\ dcPhase' = "settled"
    /\ dcPromise' = [kind |-> "data", data |-> convertFromAgUiFormat(body), err |-> <<>>]
    /\ UNCHANGED <<notDirect, dcApiKey, dcCalledAborted, dcResponse, dcAborted, dcRequests, dcWarnings, dcGqlErrors, dcSubs>>

\* response.json() rejects
DcJsonRejects(message) ==
    /\ dcPhase = "json"
    /\ dcPhase' = "settled"
    /\ dcPromise' = [kind |-> "error", data |-> <<>>,
                     err |-> DcError("BodyError", message, 0, "")]
    /\ UNCHANGED <<notDirect, dcApiKey, dcCalledAborted, dcResponse, dcAborted, dcRequests, dcWarnings, dcGqlErrors, dcSubs>>

\* The results of reader.read() the consumer has received: reads, and the
\* result of a pending read that the step from stream old to stream new resolved
Resolved(old, new, reads) ==
    IF old.readPending /\ ~new.readPending THEN Append(reads, new.readResult) ELSE reads

\* result.subscribe(observer), directly or through asStream(result)
DcSubscribe(kind) ==
    /\ dcPhase # "idle"
    /\ Len(dcSubs) < MaxSubs
    /\ dcSubs' = Append(dcSubs, [kind |-> kind, notified |-> FALSE, calls |-> <<>>,
                                 st |-> NewStream, unhandled |-> FALSE,
                                 reads |-> <<>>, cancelled |-> FALSE])
    /\ UNCHANGED <<notDirect, dcApiKey, dcCalledAborted, dcResponse, dcAborted, dcPhase, dcRequests, dcPromise,
                   dcWarnings, dcGqlErrors>>

\* The promise reaction of subscriber i runs
DcNotify(i) ==
    /\ dcPhase = "settled"
    /\ i \in 1..Len(dcSubs)
    /\ ~dcSubs[i].notified
    /\ LET d == Deliver(dcSubs[i], dcGqlErrors, dcPromise) IN
        /\ dcSubs' = [dcSubs EXCEPT
                        ![i] = [d.sub EXCEPT !.reads = Resolved(dcSubs[i].st, d.sub.st, @)]]
        /\ dcGqlErrors' = d.errs
    /\ UNCHANGED <<notDirect, dcApiKey, dcCalledAborted, dcResponse, dcAborted, dcPhase, dcRequests, dcPromise, dcWarnings>>

\* The consumer of stream i reads from it, as long as no read has reported
\* done or failed: reader.read()
DcRead(i) ==
    /\ i \in 1..Len(dcSubs)
    /\ dcSubs[i].kind = "stream"
    /\ ~dcSubs[i].st.readPending
    /\ \A k \in 1..Len(dcSubs[i].reads) : dcSubs[i].reads[k].kind = "value"
    /\ LET st == ReaderRead(dcSubs[i].st) IN
        dcSubs' = [dcSubs EXCEPT ![i].st = st,
                                 ![i].reads = IF st.readPending THEN @
                                              ELSE Append(@, st.readResult)]
    /\ UNCHANGED <<notDirect, dcApiKey, dcCalledAborted, dcResponse, dcAborted, dcPhase, dcRequests, dcPromise,
                   dcWarnings, dcGqlErrors>>

\* The consumer of stream i cancels it: reader.cancel()
DcCancel(i) ==
    /\ i \in 1..Len(dcSubs)
    /\ dcSubs[i].kind = "stream"
    /\ dcSubs[i].st.state = "readable"
    /\ LET st == ReaderCancel(dcSubs[i].st) IN
        dcSubs' = [dcSubs EXCEPT ![i].st = st,
                                 ![i].cancelled = TRUE,
                                 ![i].reads = Resolved(dcSubs[i].st, st, @)]
    /\ UNCHANGED <<notDirect, dcApiKey, dcCalledAborted, dcResponse, dcAborted, dcPhase, dcRequests, dcPromise,
                   dcWarnings, dcGqlErrors>>

DcNext ==
    \/ DcCall
    \/ DcAbort
    \/ \E o \in (IF dcAborted THEN {} ELSE FetchResponses) \cup FetchRejections(dcAborted) :
            DcFetchSettles(o)
    \/ \E body \in JsonBodies : DcJsonResolves(body)
    \/ \E message \in JsonRejections(dcAborted) : DcJsonRejects(message)
    \/ \E kind \in {"observer", "stream"} : DcSubscribe(kind)
    \/ \E i \in 1..MaxSubs : DcNotify(i)
    \/ \E i \in 1..MaxSubs : DcRead(i)
    \/ \E i \in 1..MaxSubs : DcCancel(i)

SpecDirect == DcInit /\ [][DcNext]_vars

\* The promise reactions are jobs the event loop runs: the fetch and the body
\* read settle, and every subscriber's reaction runs once the promise has.
DcFairness ==
    /\ WF_vars(\E o \in FetchResponses \cup FetchRejections(TRUE) \cup FetchRejections(FALSE) :
                  DcFetchSettles(o))
    /\ WF_vars(\E body \in JsonBodies : DcJsonResolves(body))
    /\ \A i \in 1..MaxSubs : WF_vars(DcNotify(i))

SpecDirectLive == SpecDirect /\ DcFairness

(***************************************************************************)
(* Claims about DirectAgUiRuntimeClient.                                   *)
(***************************************************************************)
\* C6 as stated: when the request is cancelled and fails with a known
\* abort-induced message, handleGQLErrors is never invoked with that error
\* and the stream produced by asStream is closed, not errored.
C6_AbortErrorDiscarded ==
    (dcAborted /\ dcPromise.kind = "error" /\ IsAbortMessage(dcPromise.err.message)) =>
        /\ \A i \in 1..Len(dcGqlErrors) : ~IsAbortMessage(dcGqlErrors[i].message)
        /\ \A i \in 1..Len(dcSubs) :
                (dcSubs[i].kind = "stream" /\ dcSubs[i].notified)
                    => dcSubs[i].st.state = "closed"

\* The request got a response whose status is outside 200-299
NonOk == dcResponse.kind = "response" /\ ~Ok(dcResponse.status)

\* Subscriber i was invoked with the error of the promise and never with data
GotErrorOnly(i) ==
    /\ dcSubs[i].calls # <<>>
    /\ \A k \in 1..Len(dcSubs[i].calls) :
            /\ dcSubs[i].calls[k].kind = "error"
            /\ dcSubs[i].calls[k].err = dcPromise.err

\* C18 as stated: for every response whose status is outside 200-299 the
\* subscriber is invoked with an error and never with data, handleGQLErrors
\* is invoked, and the delivered error carries the response status code and
\* the request URL.
C18_NonOkTransportError ==
    NonOk =>
        /\ dcPromise.kind = "error"
        /\ dcPromise.err.status = dcResponse.status
        /\ dcPromise.err.url = RequestUrl
        /\ \A i \in 1..Len(dcSubs) :
                dcSubs[i].notified =>
                    /\ GotErrorOnly(i)
                    /\ \E k \in 1..Len(dcGqlErrors) : dcGqlErrors[k] = dcPromise.err

\* What does hold for a response outside 200-299: the error is delivered, data
\* never is, handleGQLErrors is invoked, and the error carries the status
\* unless it is the version mismatch error.
NonOkDeliversError ==
    NonOk =>
        /\ dcPromise.kind = "error"
        /\ dcPromise.err.kind \in {"ResolvedCopilotKitError", "Error",
                                   "CopilotKitVersionMismatchError"}
        /\ dcPromise.err.kind # "CopilotKitVersionMismatchError"
                => dcPromise.err.status = dcResponse.status
        /\ \A i \in 1..Len(dcSubs) :
                dcSubs[i].notified =>
                    /\ GotErrorOnly(i)
                    /\ \E k \in 1..Len(dcGqlErrors) : dcGqlErrors[k] = dcPromise.err

\* The chunks stream subscriber sub has read and those still in its queue
ChunksOf(sub) ==
    LET v == SelectSeq(sub.reads, LAMBDA r : r.kind = "value") IN
    [k \in 1..Len(v) |-> v[k].rec] \o [k \in 1..Len(sub.st.queue) |-> sub.st.queue[k].rec]

\* Subscriber sub was invoked exactly once, with the converted data and
\* hasNext = false; its stream, unless the consumer has discarded it, yields
\* exactly that chunk, is closed for the producer, and the read after the
\* chunk reports done
OnceThenClosed(sub) ==
    /\ sub.calls = <<DcData(dcPromise.data)>>
    /\ (sub.kind = "stream" /\ ~sub.cancelled) =>
            /\ ChunksOf(sub) = <<dcPromise.data>>
            /\ sub.st.closeRequested
            /\ sub.st.state # "errored"
            /\ sub.st.queue = <<>> =>
                    /\ sub.st.state = "closed"
                    /\ ReaderRead(sub.st).readResult = ResultDone
            /\ \A k \in 1..Len(sub.reads) : sub.reads[k].kind \in {"value", "done"}

\* C19 as stated: on a successful single-JSON response each subscriber's
\* observer is invoked exactly once, with the converted data and
\* hasNext = false, and the stream of asStream yields exactly one chunk and
\* is then closed.
C19_DeliveredOnce ==
    dcPromise.kind = "data" =>
        \A i \in 1..Len(dcSubs) : dcSubs[i].notified => OnceThenClosed(dcSubs[i])

\* What does hold on success: the same for every subscriber whose observer
\* returns normally; the observer of a stream cancelled before the response
\* arrived throws, and is invoked a second time with what it threw, which
\* handleGQLErrors receives twice
DeliveredOnceUnlessCancelled ==
    dcPromise.kind = "data" =>
        \A i \in 1..Len(dcSubs) :
            dcSubs[i].notified =>
                \/ OnceThenClosed(dcSubs[i])
                \/ /\ dcSubs[i].cancelled
                   /\ dcSubs[i].calls = <<DcData(dcPromise.data), DcFailed(InvalidState)>>
                   /\ Len(SelectSeq(dcGqlErrors, LAMBDA e : e = InvalidState)) >= 2

\* A stream that has yielded its chunk and reported done
DeliveredOnceReached ==
    /\ dcPromise.kind = "data"
    /\ \E i \in 1..Len(dcSubs) :
            /\ dcSubs[i].kind = "stream"
            /\ dcSubs[i].notified
            /\ Len(dcSubs[i].reads) = 2

\* C20 as stated: a version mismatch is reported through the warning
\* callback only: for every response status the error delivered is the one
\* delivered without the mismatching header, and the mismatch never travels
\* through the error channel.
C20_MismatchOnlyWarns ==
    /\ \A k \in 1..Len(dcGqlErrors) : dcGqlErrors[k].message # "version mismatch"
    /\ \A i \in 1..Len(dcSubs) : \A k \in 1..Len(dcSubs[i].calls) :
            dcSubs[i].calls[k].err.message # "version mismatch"
    /\ NonOk =>
            dcPromise.err = FetchSettled([dcResponse EXCEPT !.mismatch = FALSE], dcApiKey).err

\* What does hold: with a public API key the header is not looked at, and
\* for a status outside 400-500 the mismatch is a warning and changes nothing
MismatchWarnsOutside4xx ==
    (dcResponse.kind = "response"
        /\ (dcApiKey \/ dcResponse.status < 400 \/ dcResponse.status > 500)) =>
        /\ Len(dcWarnings) = (IF dcResponse.mismatch /\ ~dcApiKey THEN 1 ELSE 0)
        /\ FetchSettled(dcResponse, dcApiKey).err
                = FetchSettled([dcResponse EXCEPT !.mismatch = FALSE], dcApiKey).err
        /\ dcPromise.kind = "error" => dcPromise.err.message # "version mismatch"

\* The stream of subscriber i is closed or errored, or its close is requested
\* and takes effect when the reader has taken the queued chunk
StreamTerminated(i) ==
    /\ i \in 1..Len(dcSubs)
    /\ \/ dcSubs[i].st.state \in {"closed", "errored"}
       \/ dcSubs[i].st.closeRequested

IsStream(i) == i \in 1..Len(dcSubs) /\ dcSubs[i].kind = "stream"

\* C31: the stream returned by asStream over a generateCopilotResponse source
\* always terminates: for every outcome of the request (data, plain error,
\* abort-induced error, structured error carrying extensions.visibility) the
\* stream is eventually closed or errored.
C31_StreamTerminates ==
    \A i \in 1..MaxSubs : IsStream(i) ~> StreamTerminated(i)

\* The request failed with an error that carries extensions.visibility
StructuredFailure == dcPromise.kind = "error" /\ HasVisibility(dcPromise.err)

\* What holds: a stream terminates unless the request fails with a
\* structured error, and after a structured error it stays open for ever.
TerminatesUnlessStructured ==
    \A i \in 1..MaxSubs : IsStream(i) ~> (StreamTerminated(i) \/ StructuredFailure)

StructuredLeavesOpen ==
    \A i \in 1..MaxSubs :
        (IsStream(i) /\ dcSubs[i].notified /\ StructuredFailure /\ ~dcSubs[i].cancelled
            /\ dcSubs[i].calls[1].kind = "error")
            => dcSubs[i].st.state = "readable" /\ ~dcSubs[i].st.closeRequested

\* The failed request has one consumer, a stream of asStream, whose observer
\* has been invoked with the failure
OneFailedStream ==
    /\ dcPromise.kind = "error"
    /\ Len(dcSubs) = 1
    /\ dcSubs[1].kind = "stream" /\ dcSubs[1].notified /\ ~dcSubs[1].cancelled

\* C36: for one failed generateCopilotResponse request consumed through
\* asStream, handleGQLErrors is invoked exactly once with that failure, so a
\* single failed request sets at most one banner.
C36_FailureReportedOnce ==
    OneFailedStream =>
        /\ Len(dcGqlErrors) = 1
        /\ dcGqlErrors[1].message = dcPromise.err.message

\* What holds: the .catch of subscribe reports the failure, and the observer
\* of asStream reports it again unless it is an abort error
FailureReportedTwice ==
    OneFailedStream =>
        /\ dcGqlErrors[1] = dcPromise.err
        /\ Len(dcGqlErrors) = IF IsAbortMessage(dcPromise.err.message) THEN 1 ELSE 2
        /\ \A i \in 1..Len(dcGqlErrors) : dcGqlErrors[i].message = dcPromise.err.message

\* The result handed to subscribers once the promise has settled
Outcome == IF dcPromise.kind = "data" THEN DcData(dcPromise.data) ELSE DcFailed(dcPromise.err)

\* C38: each generateCopilotResponse invocation issues exactly one HTTP
\* request, at call time, independent of the number of subscribers (zero,
\* one or many); every subscriber of the same result observes the same
\* single outcome.
C38_OneRequestOneOutcome ==
    /\ dcRequests = (IF dcPhase = "idle" THEN 0 ELSE 1)
    /\ \A i \in 1..Len(dcSubs) :
          dcSubs[i].calls = (IF dcSubs[i].notified THEN <<Outcome>> ELSE <<>>)

\* What holds: one request, issued by the call; every subscriber is invoked
\* first with the outcome of that request, and with nothing else unless its
\* callback throws on the data, which is the case of a stream its consumer
\* has cancelled: its observer is invoked a second time, with the TypeError.
OneRequestFirstOutcome ==
    /\ dcRequests = (IF dcPhase = "idle" THEN 0 ELSE 1)
    /\ \A i \in 1..Len(dcSubs) :
          IF ~dcSubs[i].notified THEN dcSubs[i].calls = <<>>
          ELSE /\ dcSubs[i].calls[1] = Outcome
               /\ Len(dcSubs[i].calls) > 1 =>
                     /\ dcSubs[i].kind = "stream" /\ dcSubs[i].cancelled
                     /\ dcSubs[i].calls = <<Outcome, DcFailed(InvalidState)>>

\* C23 as stated, for this client: if the signal is already aborted when
\* generateCopilotResponse is called, a subscriber receives no next and no
\* error callback.
C23_AbortedBeforeCall ==
    dcCalledAborted =>
        \A i \in 1..Len(dcSubs) : \A k \in 1..Len(dcSubs[i].calls) :
            dcSubs[i].calls[k].kind \notin {"data", "error"}

(***************************************************************************)
(* Error routing of the hooks: handleGQLErrors of                          *)
(* useDirectAgUiRuntimeClient and onRunFailed of useCopilotAguiClients.    *)
(* Error messages and agent names are strings (sequences of characters).   *)
(***************************************************************************)
DedupWindow == 150

ErrorMessages == {<<"x">>, <<"y">>}
AgentNames == {<<"a">>, <<"b">>}

\* Entries of a graphQLErrors list: {message, extensions: {visibility}}
GqlError(message, visibility) == [message |-> message, visibility |-> visibility]
GqlErrors == {GqlError(<<"x">>, "BANNER"), GqlError(<<"y">>, "BANNER"), GqlError(<<"x">>, "SILENT")}

\* Errors handed to handleGQLErrors: without a graphQLErrors list, with an
\* empty one, with one or two entries
HookErrors ==
    [message : ErrorMessages, hasList : {FALSE}, graphQLErrors : {<<>>}]
    \cup {[message |-> <<"x">>, hasList |-> TRUE, graphQLErrors |-> <<>>]}
    \cup {[message |-> g.message, hasList |-> TRUE, graphQLErrors |-> <<g>>] : g \in GqlErrors}
    \cup {[message |-> g.message, hasList |-> TRUE, graphQLErrors |-> <<g, h>>] :
            g \in GqlErrors, h \in GqlErrors}

Ref(message, timestamp) == [set |-> TRUE, message |-> message, timestamp |-> timestamp]

\* What a hook's handler reads and writes
Routing(hook) ==
    [last |-> lastStructuredErrorRef[hook], banners |-> banners, arrivals |-> arrivals]

Arrival(hook, path, key, message, visibility, at, shown) ==
    [hook |-> hook, path |-> path, key |-> key, message |-> message,
     visibility |-> visibility, at |-> at, shown |-> shown,
     traced |-> FALSE, escaped |-> FALSE]

\* traceUIError(error, originalError) for arrival a: whether onError is
\* invoked (traced) and whether what it throws leaves the helper (escaped).
\* useDirectAgUiRuntimeClient returns early without onError or publicApiKey,
\* useCopilotAguiClients without onError; both await onError inside try/catch
traceUIError(a) ==
    IF onError = "undefined" \/ (a.hook = "useDirectAgUiRuntimeClient" /\ ~publicApiKey)
    THEN a
    ELSE [a EXCEPT !.traced = TRUE, !.escaped = FALSE]

\* The handler returns without calling setBannerError
Logged(r, a) == [r EXCEPT !.arrivals = Append(@, a)]

\* Mutant: the error is surfaced and the deduplication state is left as it was
SurfacedNoStore(r, a, text) ==
    [last |-> r.last, banners |-> Append(r.banners, text),
     arrivals |-> Append(r.arrivals, traceUIError([a EXCEPT !.shown = TRUE]))]

\* setBannerError(error), error.message = text, after the deduplication
\* state was updated
Surfaced(r, a, text) ==
    [last |-> Ref(a.key, a.at), banners |-> Append(r.banners, text),
     arrivals |-> Append(r.arrivals, traceUIError([a EXCEPT !.shown = TRUE]))]

\* routeError with the time window dropped from the duplicate test
routeErrorNoWindow(r, gqlError, t, dev) ==
    LET a == Arrival("useDirectAgUiRuntimeClient", "listed", gqlError.message,
                     gqlError.message, gqlError.visibility, t, FALSE)
    IN  IF gqlError.visibility = "SILENT" THEN Logged(r, a)
        ELSE IF ~dev THEN Logged(r, a)
        ELSE IF r.last.set /\ r.last.message = gqlError.message
             THEN Logged(r, a)
             ELSE Surfaced(r, a, gqlError.message)

\* routeError(gqlError) of handleGQLErrors, at Date.now() = t
routeError(r, gqlError, t, dev) ==
    LET a == Arrival("useDirectAgUiRuntimeClient", "listed", gqlError.message,
                     gqlError.message, gqlError.visibility, t, FALSE)
    IN  IF gqlError.visibility = "SILENT" THEN Logged(r, a)
        ELSE IF ~dev THEN Logged(r, a)
        ELSE IF /\ r.last.set
                /\ r.last.message = gqlError.message
                /\ t - r.last.timestamp < DedupWindow
             THEN Logged(r, a)
             ELSE Surfaced(r, a, gqlError.message)

\* graphQLErrors.forEach(routeError)
RECURSIVE ForEachRouteError(_, _, _, _)
ForEachRouteError(r, graphQLErrors, t, dev) ==
    IF graphQLErrors = <<>> THEN r
    ELSE ForEachRouteError(routeError(r, Head(graphQLErrors), t, dev),
                           Tail(graphQLErrors), t, dev)

\* handleGQLErrors(error)
handleGQLErrors(r, error, t, dev) ==
    IF error.hasList /\ Len(error.graphQLErrors) > 0
    THEN ForEachRouteError(r, error.graphQLErrors, t, dev)
    ELSE LET a == Arrival("useDirectAgUiRuntimeClient", "direct", error.message,
                          error.message, "none", t, FALSE)
         IN  IF ~dev THEN Logged(r, a)
             ELSE [r EXCEPT !.banners = Append(@, error.message),
                            !.arrivals = Append(@, traceUIError([a EXCEPT !.shown = TRUE]))]

\* `${agentName}: ${error.message}`
ErrorKey(agentName, message) == agentName \o <<":", " ">> \o message

\* Mutant: onRunFailed without the developer console test
onRunFailedNoDevTest(r, agentName, message, t, dev) ==
    LET errorMessage == ErrorKey(agentName, message)
        a == Arrival("useCopilotAguiClients", "run", errorMessage, message, "none", t, FALSE)
    IN  IF /\ r.last.set
           /\ r.last.message = errorMessage
           /\ t - r.last.timestamp < DedupWindow
        THEN Logged(r, a)
        ELSE Surfaced(r, a, <<"A", "g", "e", "n", "t", " ">> \o errorMessage)

\* errorSubscribers[agentName].onRunFailed({error})
onRunFailed(r, agentName, message, t, dev) ==
    LET errorMessage == ErrorKey(agentName, message)
        a == Arrival("useCopilotAguiClients", "run", errorMessage, message, "none", t, FALSE)
    IN  IF ~dev THEN Logged(r, a)
        ELSE IF /\ r.last.set
                /\ r.last.message = errorMessage
                /\ t - r.last.timestamp < DedupWindow
             THEN Logged(r, a)
             ELSE Surfaced(r, a, <<"A", "g", "e", "n", "t", " ">> \o errorMessage)

DdInit ==
    /\ clientUrl \in ClientUrls
    /\ TrIdle
    /\ StIdle
    /\ DcIdle
    /\ now = 0
    /\ isDev \in BOOLEAN
    /\ onError = "undefined"
    /\ publicApiKey = FALSE
    /\ lastStructuredErrorRef = [h \in Hooks |-> NullRef]
    /\ banners = <<>>
    /\ arrivals = <<>>
    /\ ClIdle
    /\ FcIdle
    /\ CvIdle
    /\ AgIdle
    /\ CsIdle
    /\ RqIdle
    /\ RtIdle

\* Number of entries handleGQLErrors routes for an error
Routed(error) == IF error.hasList /\ Len(error.graphQLErrors) > 0
                 THEN Len(error.graphQLErrors) ELSE 1

Commit(hook, r) ==
    /\ lastStructuredErrorRef' = [lastStructuredErrorRef EXCEPT ![hook] = r.last]
    /\ banners' = r.banners
    /\ arrivals' = r.arrivals

\* The runtime client reports an error to the hook
DdHandleGQLErrors(error) ==
    /\ Len(arrivals) + Routed(error) <= MaxArrivals
    /\ Commit("useDirectAgUiRuntimeClient",
              handleGQLErrors(Routing("useDirectAgUiRuntimeClient"), error, now, isDev))
    /\ UNCHANGED <<notDedup, now, isDev, onError, publicApiKey>>

\* A run of agent agentName fails
DdOnRunFailed(agentName, message) ==
    /\ Len(arrivals) + 1 <= MaxArrivals
    /\ Commit("useCopilotAguiClients",
              onRunFailed(Routing("useCopilotAguiClients"), agentName, message, now, isDev))
    /\ UNCHANGED <<notDedup, now, isDev, onError, publicApiKey>>

\* Time passes
DdTick ==
    /\ now + ClockStep <= MaxClock
    /\ now' = now + ClockStep
    /\ UNCHANGED <<notDedup, isDev, onError, publicApiKey, lastStructuredErrorRef, banners, arrivals>>

DdNext ==
    \/ \E error \in HookErrors : DdHandleGQLErrors(error)
    \/ \E agentName \in AgentNames, message \in ErrorMessages : DdOnRunFailed(agentName, message)
    \/ DdTick

SpecDedup == DdInit /\ [][DdNext]_vars

\* The hooks with any onError and publicApiKey options, at one reading of
\* the clock
DtInit ==
    /\ clientUrl \in ClientUrls
    /\ TrIdle
    /\ StIdle
    /\ DcIdle
    /\ now = 0
    /\ isDev \in BOOLEAN
    /\ onError \in {"undefined", "returns", "throws"}
    /\ publicApiKey \in BOOLEAN
    /\ lastStructuredErrorRef = [h \in Hooks |-> NullRef]
    /\ banners = <<>>
    /\ arrivals = <<>>
    /\ ClIdle
    /\ FcIdle
    /\ CvIdle
    /\ AgIdle
    /\ CsIdle
    /\ RqIdle
    /\ RtIdle

DtNext ==
    \/ \E error \in HookErrors : DdHandleGQLErrors(error)
    \/ \E agentName \in AgentNames, message \in ErrorMessages : DdOnRunFailed(agentName, message)

SpecTrace == DtInit /\ [][DtNext]_vars

(***************************************************************************)
(* Claims about deduplication.                                             *)
(***************************************************************************)
ShownCount(i, j) == (IF arrivals[i].shown THEN 1 ELSE 0) + (IF arrivals[j].shown THEN 1 ELSE 0)

Deduplicated(a) == a.path \in {"listed", "run"} /\ a.visibility # "SILENT"

\* The surfaced, deduplicated errors of arrival k's hook before arrival k
SurfacedBefore(k) ==
    { j \in 1..(k - 1) : /\ arrivals[j].hook = arrivals[k].hook
                         /\ Deduplicated(arrivals[j])
                         /\ arrivals[j].shown }

Latest(S) == CHOOSE j \in S : \A i \in S : i <= j

SurfacedOf(h, k) ==
    { j \in 1..(k - 1) : arrivals[j].hook = h /\ arrivals[j].shown }
DedupSurfacedOf(h, k) ==
    { j \in SurfacedOf(h, k) : Deduplicated(arrivals[j]) }

\* The {message, timestamp} that describes the latest error of S, null for none
StoredFor(S) ==
    IF S = {} THEN NullRef ELSE Ref(arrivals[Latest(S)].key, arrivals[Latest(S)].at)

\* Arrival k equals the stored state st in message and is inside its window
DuplicateOf(k, st) ==
    st.set /\ st.message = arrivals[k].key /\ arrivals[k].at - st.timestamp < DedupWindow

C27_OnErrorNeedsKey ==
    \A k \in 1..Len(arrivals) :
        /\ arrivals[k].traced => publicApiKey
        /\ ~arrivals[k].escaped

\* What does hold: useDirectAgUiRuntimeClient forwards an error to onError
\* only with a publicApiKey, and nothing onError throws leaves either hook
OnErrorNeedsKeyInDirectHook ==
    \A k \in 1..Len(arrivals) :
        /\ (arrivals[k].traced /\ arrivals[k].hook = "useDirectAgUiRuntimeClient")
                => publicApiKey
        /\ ~arrivals[k].escaped

(***************************************************************************)
(* useCopilotAguiClients: the aguiClients and errorSubscribers memos and   *)
(* getClientForAgent.  aguiClients is a plain object ({}), so reading a    *)
(* property that is not its own finds the members of Object.prototype.     *)
(***************************************************************************)
EndpointKeys == {"a", "default", "constructor"}
Urls == {"u1", "u2"}

\* Record<string, string> over the keys above, or undefined
EndpointMaps == UNION { [K -> Urls] : K \in SUBSET EndpointKeys }
EndpointOptions == {NoEndpoints} \cup [defined : {TRUE}, map : EndpointMaps]

\* enabled = true by default
EnabledOptions == {"undefined", "true", "false"}
Enabled(o) == o.enabled # "false"

\* JavaScript values getClientForAgent handles
Undefined == [kind |-> "undefined", url |-> "", agentId |-> ""]
Null == [kind |-> "null", url |-> "", agentId |-> ""]
HttpAgent(url, agentName) ==
    [kind |-> "HttpAgent", url |-> url,
     agentId |-> IF agentName # "default" THEN agentName ELSE "undefined"]

\* Members every plain object inherits from Object.prototype
ObjectPrototypeKeys == {"constructor", "toString"}
Inherited(name) == [kind |-> "inherited", url |-> "", agentId |-> name]

\* obj[name]
Get(obj, name) ==
    IF name \in DOMAIN obj THEN obj[name]
    ELSE IF name \in ObjectPrototypeKeys THEN Inherited(name)
    ELSE Undefined

\* a || b
Or(a, b) == IF a.kind \in {"undefined", "null"} THEN b ELSE a

\* the aguiClients memo
BuildClients(o) ==
    IF ~Enabled(o) \/ ~o.endpoints.defined \/ DOMAIN o.endpoints.map = {}
    THEN <<>>
    ELSE [agentName \in DOMAIN o.endpoints.map |-> HttpAgent(o.endpoints.map[agentName], agentName)]

\* Arguments of getClientForAgent(agentName?: string)
NoName == [given |-> FALSE, name |-> ""]
Name(n) == [given |-> TRUE, name |-> n]
LookupNames == {NoName} \cup {Name(n) : n \in {"", "a", "b", "default", "constructor"}}

getClientForAgent(clients, arg) ==
    IF ~arg.given \/ arg.name = ""
    THEN Or(Get(clients, "default"), Null)
    ELSE Or(Get(clients, arg.name), Or(Get(clients, "default"), Null))

ClInit ==
    /\ clientUrl \in ClientUrls
    /\ TrIdle
    /\ StIdle
    /\ DcIdle
    /\ DdIdle
    /\ ClIdle
    /\ FcIdle
    /\ CvIdle
    /\ AgIdle
    /\ CsIdle
    /\ RqIdle
    /\ RtIdle

\* useCopilotAguiClients(o) is rendered
Render(o) ==
    /\ ~rendered
    /\ rendered' = TRUE
    /\ options' = o
    /\ aguiClients' = BuildClients(o)
    /\ errorSubscribers' = DOMAIN BuildClients(o)
    /\ constructed' = Cardinality(DOMAIN BuildClients(o))
    /\ UNCHANGED <<notClients, lookups>>

\* getClientForAgent(arg) is called on the rendered hook
GetClientForAgent(arg) ==
    /\ rendered
    /\ Len(lookups) < MaxLookups
    /\ lookups' = Append(lookups, [arg |-> arg, result |-> getClientForAgent(aguiClients, arg)])
    /\ UNCHANGED <<notClients, rendered, options, aguiClients, errorSubscribers, constructed>>

ClNext ==
    \/ \E e \in EndpointOptions, en \in EnabledOptions : Render([endpoints |-> e, enabled |-> en])
    \/ \E arg \in LookupNames : GetClientForAgent(arg)

SpecClients == ClInit /\ [][ClNext]_vars

(***************************************************************************)
(* Claims about useCopilotAguiClients.                                     *)
(***************************************************************************)
\* The client built for the url the endpoint map gives to key
ClientFor(key) == HttpAgent(options.endpoints.map[key], key)

IsKey(name) == options.endpoints.defined /\ name \in DOMAIN options.endpoints.map

\* The clients were built: enabled, with a non-empty endpoint map
Built == Enabled(options) /\ options.endpoints.defined /\ DOMAIN options.endpoints.map # {}

\* C8 as stated: getClientForAgent yields the client built for the name's
\* url when the name is a key of the endpoint map, the client built for
\* "default" when the name is absent or not given, and null when neither
\* the name nor "default" has a client.
C8_AgentResolution ==
    \A i \in 1..Len(lookups) :
        LET arg == lookups[i].arg
            result == lookups[i].result
        IN  /\ (Built /\ arg.given /\ IsKey(arg.name)) => result = ClientFor(arg.name)
            /\ (Built /\ ~(arg.given /\ IsKey(arg.name)) /\ IsKey("default"))
                    => result = ClientFor("default")
            /\ (~Built \/ (~(arg.given /\ IsKey(arg.name)) /\ ~IsKey("default")))
                    => result = Null

\* C9 as stated: with enabled=false or an empty endpoint map no HttpAgent is
\* constructed, aguiClients and errorSubscribers are empty, and
\* getClientForAgent returns null for every agent name.
C9_DisabledOrEmpty ==
    (rendered /\ (options.enabled = "false"
                  \/ (options.endpoints.defined /\ DOMAIN options.endpoints.map = {})))
        => /\ constructed = 0
           /\ aguiClients = <<>>
           /\ errorSubscribers = {}
           /\ \A i \in 1..Len(lookups) : lookups[i].result = Null

\* The same two statements for agent names that have a client or are not
\* members of Object.prototype: these hold of the hook.
Plain(arg) == ~arg.given \/ arg.name \notin ObjectPrototypeKeys \/ arg.name \in DOMAIN aguiClients

PlainNamesResolve ==
    \A i \in 1..Len(lookups) :
        LET arg == lookups[i].arg
            result == lookups[i].result
        IN  Plain(arg) =>
            /\ (Built /\ arg.given /\ IsKey(arg.name)) => result = ClientFor(arg.name)
            /\ (Built /\ ~(arg.given /\ IsKey(arg.name)) /\ IsKey("default"))
                    => result = ClientFor("default")
            /\ (Built /\ ~(arg.given /\ IsKey(arg.name)) /\ ~IsKey("default"))
                    => result = Null
            /\ ~Built
                    => /\ result = Null
                       /\ constructed = 0
                       /\ aguiClients = <<>>
                       /\ errorSubscribers = {}

\* C10 as stated: constructing the client set with an empty endpoint map is
\* rejected with an error; no client set, not even an empty one, is returned.
C10_EmptyMapRejected ==
    ~ ( /\ rendered
        /\ options.endpoints.defined
        /\ DOMAIN options.endpoints.map = {} )

(***************************************************************************)
(* Client factories: createUnifiedClient (react-core) and                  *)
(* createCopilotRuntimeClient (runtime-client-gql).                        *)
(***************************************************************************)
\* JS truthiness of an optional string or boolean option
IsSet(v) == v \notin {"undefined", "", "false"}

NoClient == [class |-> "none", url |-> ""]
Client(class, url) == [class |-> class, url |-> url]

Returned1(client) == [outcome |-> "returned", client |-> client, message |-> "", built |-> <<client>>]
Threw(message) == [outcome |-> "threw", client |-> NoClient, message |-> message, built |-> <<>>]

\* UnifiedClientOptions: url, aguiServerUrl?, useAgUi?
UnifiedClientOptions ==
    [url : {"", "http://runtime"},
     aguiServerUrl : {"undefined", "", "http://agent"},
     useAgUi : {"undefined", "true", "false"}]

createUnifiedClient(o) ==
    IF IsSet(o.aguiServerUrl) \/ IsSet(o.useAgUi)
    THEN Returned1(Client("AgUiClient", IF IsSet(o.aguiServerUrl) THEN o.aguiServerUrl ELSE o.url))
    ELSE Returned1(Client("CopilotRuntimeClient", o.url))

\* CopilotRuntimeClientFactoryOptions: mode, graphqlConfig?, directConfig?
\* (a config is "undefined" or the url it carries)
FactoryOptions ==
    [mode : {"graphql", "direct", "undefined"},
     graphqlConfig : {"undefined", "http://runtime"},
     directConfig : {"undefined", "http://agent"}]

\* createCopilotRuntimeClient falling back to the other mode's configuration
createCopilotRuntimeClientFallback(o) ==
    IF o.mode = "direct"
    THEN IF o.directConfig = "undefined"
         THEN IF o.graphqlConfig = "undefined"
              THEN Threw("directConfig is required when mode is \"direct\"")
              ELSE Returned1(Client("CopilotRuntimeClient", o.graphqlConfig))
         ELSE Returned1(Client("DirectAgUiRuntimeClient", o.directConfig))
    ELSE IF o.graphqlConfig = "undefined"
         THEN Threw("graphqlConfig is required when mode is \"graphql\"")
         ELSE Returned1(Client("CopilotRuntimeClient", o.graphqlConfig))

createCopilotRuntimeClient(o) ==
    IF o.mode = "direct"
    THEN IF o.directConfig = "undefined"
         THEN Threw("directConfig is required when mode is \"direct\"")
         ELSE Returned1(Client("DirectAgUiRuntimeClient", o.directConfig))
    ELSE IF o.graphqlConfig = "undefined"
         THEN Threw("graphqlConfig is required when mode is \"graphql\"")
         ELSE Returned1(Client("CopilotRuntimeClient", o.graphqlConfig))

FcInit ==
    /\ clientUrl \in ClientUrls
    /\ TrIdle
    /\ StIdle
    /\ DcIdle
    /\ DdIdle
    /\ ClIdle
    /\ FcIdle
    /\ CvIdle
    /\ AgIdle
    /\ CsIdle
    /\ RqIdle
    /\ RtIdle

\* A call of factory function fn with options o and result r
FactoryCall(fn, o, r) ==
    /\ Len(fcCalls) < MaxFactoryCalls
    /\ fcCalls' = Append(fcCalls, [fn |-> fn, options |-> o, outcome |-> r.outcome,
                                   client |-> r.client, message |-> r.message,
                                   built |-> r.built])
    /\ fcConstructed' = fcConstructed \o r.built
    /\ UNCHANGED notFactory

CallCreateUnifiedClient(o) == FactoryCall("createUnifiedClient", o, createUnifiedClient(o))

CallCreateCopilotRuntimeClient(o) ==
    FactoryCall("createCopilotRuntimeClient", o, createCopilotRuntimeClient(o))

FcNext ==
    \/ \E o \in UnifiedClientOptions : CallCreateUnifiedClient(o)
    \/ \E o \in FactoryOptions : CallCreateCopilotRuntimeClient(o)

SpecFactory == FcInit /\ [][FcNext]_vars

(***************************************************************************)
(* Claims about the factories.                                             *)
(***************************************************************************)
\* C11 as stated: createUnifiedClient with both a runtime endpoint url and a
\* direct-agent endpoint (aguiServerUrl) configured never returns a client;
\* the configuration is rejected with an error.
C11_BothEndpointsRejected ==
    \A i \in 1..Len(fcCalls) :
        ( /\ fcCalls[i].fn = "createUnifiedClient"
          /\ IsSet(fcCalls[i].options.url)
          /\ IsSet(fcCalls[i].options.aguiServerUrl) )
        => fcCalls[i].outcome = "threw"

\* C12: createCopilotRuntimeClient constructs exactly one client per
\* successful call, a DirectAgUiRuntimeClient iff mode is 'direct' and
\* directConfig is present, a CopilotRuntimeClient iff mode is not 'direct'
\* and graphqlConfig is present; when the selected mode's configuration is
\* missing it throws that mode's message and constructs nothing, whatever
\* the other mode's configuration is.
C12_FactoryByMode ==
    /\ \A i \in 1..Len(fcCalls) :
        LET c == fcCalls[i] o == fcCalls[i].options IN
        c.fn = "createCopilotRuntimeClient" =>
            /\ c.outcome = "returned" => Len(c.built) = 1 /\ c.built[1] = c.client
            /\ c.outcome = "threw" => c.built = <<>> /\ c.client = NoClient
            /\ (c.outcome = "returned" /\ c.client.class = "DirectAgUiRuntimeClient")
                    <=> (o.mode = "direct" /\ o.directConfig # "undefined")
            /\ (c.outcome = "returned" /\ c.client.class = "CopilotRuntimeClient")
                    <=> (o.mode # "direct" /\ o.graphqlConfig # "undefined")
            /\ (o.mode = "direct" /\ o.directConfig = "undefined")
                    => /\ c.outcome = "threw"
                       /\ c.message = "directConfig is required when mode is \"direct\""
            /\ (o.mode # "direct" /\ o.graphqlConfig = "undefined")
                    => /\ c.outcome = "threw"
                       /\ c.message = "graphqlConfig is required when mode is \"graphql\""
    /\ Len(fcConstructed) = Cardinality({i \in 1..Len(fcCalls) : fcCalls[i].outcome = "returned"})

\* A direct-mode call without directConfig but with graphqlConfig threw, and
\* a later direct-mode call with directConfig returned its client.
C12_Witness ==
    /\ Len(fcCalls) = 2
    /\ fcCalls[1].fn = "createCopilotRuntimeClient"
    /\ fcCalls[1].options.mode = "direct"
    /\ fcCalls[1].options.directConfig = "undefined"
    /\ fcCalls[1].options.graphqlConfig # "undefined"
    /\ fcCalls[1].outcome = "threw"
    /\ fcCalls[2].fn = "createCopilotRuntimeClient"
    /\ fcCalls[2].outcome = "returned"
    /\ fcCalls[2].client = Client("DirectAgUiRuntimeClient", "http://agent")
    /\ fcConstructed = <<Client("DirectAgUiRuntimeClient", "http://agent")>>

(***************************************************************************)
(* Message conversion (react-core/src/lib/client-factory.ts):              *)
(* copilotKitToAgui and aguiToCopilotKit.  Messages are records over one   *)
(* key universe; a field a variant does not have is "undefined".           *)
(***************************************************************************)
Uuids == {"uuid1", "uuid2"}

\* JSON values used as action arguments, and JSON.stringify of them
Arguments == {"{}", "{q:x}"}
JSONStringify(arguments) ==
    IF arguments = "{}" THEN <<"{", "}">>
    ELSE <<"{", "\"", "q", "\"", ":", "\"", "x", "\"", "}">>

Message(type, id) ==
    [type |-> type, id |-> id, role |-> "undefined", content |-> "undefined",
     name |-> "undefined", arguments |-> "undefined", result |-> "undefined",
     actionExecutionId |-> "undefined"]

Roles == {"User", "Assistant", "System", "Developer", "Tool"}

\* The five variants of Message
Messages ==
    { [Message("TextMessage", id) EXCEPT !.role = r, !.content = "hi"] :
        id \in MessageIds, r \in Roles }
    \cup { [Message("ActionExecutionMessage", id) EXCEPT !.name = "search", !.arguments = a] :
        id \in MessageIds, a \in Arguments }
    \cup { [Message("ResultMessage", "m3") EXCEPT !.result = "ok", !.actionExecutionId = a] :
        a \in MessageIds }
    \cup { Message("AgentStateMessage", "m4"),
           [Message("ImageMessage", "m5") EXCEPT !.role = "User"] }

getRoleFromMessage(message) ==
    IF message.type = "TextMessage"
    THEN CASE message.role = "User" -> "user"
           [] message.role = "Assistant" -> "assistant"
           [] message.role = "System" -> "system"
           [] message.role = "Developer" -> "developer"
           [] OTHER -> "user"
    ELSE "assistant"

\* AguiMessage: id, role, content, toolCalls?, toolCallId?
AguiMessage(id, role, content) ==
    [id |-> id, role |-> role, content |-> content, toolCalls |-> <<>>,
     toolCallId |-> "undefined"]

ToolCall(id, name, arguments) ==
    [id |-> id, type |-> "function", name |-> name, arguments |-> arguments]

\* The ActionExecutionMessage branch with the two ids exchanged: the tool
\* call gets the generated id, the wire message keeps the message id
ActionExecutionToAguiFreshToolCall(message, uuid) ==
    [AguiMessage(message.id, "assistant", "") EXCEPT
        !.toolCalls = <<ToolCall(uuid, message.name, JSONStringify(message.arguments))>>]

\* else if (message.isActionExecutionMessage()) { ... }
ActionExecutionToAgui(message, uuid) ==
    [AguiMessage(uuid, "assistant", "") EXCEPT
        !.toolCalls = <<ToolCall(message.id, message.name, JSONStringify(message.arguments))>>]

\* The ResultMessage branch referring to its own id
ResultToAguiOwnId(message) ==
    [AguiMessage(message.id, "tool", message.result) EXCEPT !.toolCallId = message.id]

\* else if (message.isResultMessage()) { ... }
ResultToAgui(message) ==
    [AguiMessage(message.id, "tool", message.result) EXCEPT
        !.toolCallId = message.actionExecutionId]

\* The TextMessage branch with the role fixed
TextToAguiAsUser(message) == AguiMessage(message.id, "user", message.content)

\* if (message.isTextMessage()) { ... }
TextToAgui(message) == AguiMessage(message.id, getRoleFromMessage(message), message.content)

\* One iteration of the loop of copilotKitToAgui: the message pushed
ToAgui(message, uuid) ==
    CASE message.type = "TextMessage" -> TextToAgui(message)
      [] message.type = "ActionExecutionMessage" -> ActionExecutionToAgui(message, uuid)
      [] message.type = "ResultMessage" -> ResultToAgui(message)
      [] message.type = "AgentStateMessage" -> AguiMessage(message.id, "assistant", "")
      [] message.type = "ImageMessage" -> AguiMessage(message.id, getRoleFromMessage(message), "")

copilotKitToAgui(messages, uuids) ==
    [i \in 1..Len(messages) |-> ToAgui(messages[i], uuids[i])]

\* aguiToCopilotKit: aguiMessages.map(msg => ({id, content: msg.content || "", role}))
aguiToCopilotKit(aguiMessages) ==
    [i \in 1..Len(aguiMessages) |->
        [id |-> aguiMessages[i].id,
         content |-> IF aguiMessages[i].content \in {"undefined", ""} THEN ""
                     ELSE aguiMessages[i].content,
         role |-> aguiMessages[i].role]]

CvInit ==
    /\ clientUrl \in ClientUrls
    /\ TrIdle
    /\ StIdle
    /\ DcIdle
    /\ DdIdle
    /\ ClIdle
    /\ FcIdle
    /\ CvIdle
    /\ AgIdle
    /\ CsIdle
    /\ RqIdle
    /\ RtIdle

\* The caller builds the message list
AddMessage(message) ==
    /\ cvPhase = "input"
    /\ Len(cvMessages) < MaxMessages
    /\ cvMessages' = Append(cvMessages, message)
    /\ UNCHANGED <<notConvert, cvPhase, cvUuids, cvAgui, cvBack>>

\* copilotKitToAgui(messages, actions, coAgentStateRenders); randomUUID()
\* returns uuids[i] at message i
CallCopilotKitToAgui(uuids) ==
    /\ cvPhase = "input"
    /\ cvPhase' = "agui"
    /\ cvUuids' = uuids
    /\ cvAgui' = copilotKitToAgui(cvMessages, uuids)
    /\ UNCHANGED <<notConvert, cvMessages, cvBack>>

\* aguiToCopilotKit(aguiMessages) on the result
CallAguiToCopilotKit ==
    /\ cvPhase = "agui"
    /\ cvPhase' = "back"
    /\ cvBack' = aguiToCopilotKit(cvAgui)
    /\ UNCHANGED <<notConvert, cvMessages, cvUuids, cvAgui>>

CvNext ==
    \/ \E message \in Messages : AddMessage(message)
    \/ \E uuids \in [1..Len(cvMessages) -> Uuids] : CallCopilotKitToAgui(uuids)
    \/ CallAguiToCopilotKit

SpecConvert == CvInit /\ [][CvNext]_vars

(***************************************************************************)
(* Claims about message conversion.                                        *)
(***************************************************************************)
Converted == cvPhase # "input"

IsType(i, type) == cvMessages[i].type = type

\* C13 as stated: for every ActionExecutionMessage the single tool call of
\* the produced assistant wire message has a freshly generated id that
\* differs from the message's own id.
C13_ToolCallIdFresh ==
    Converted =>
        \A i \in 1..Len(cvMessages) :
            IsType(i, "ActionExecutionMessage") =>
                /\ Len(cvAgui[i].toolCalls) = 1
                /\ cvAgui[i].toolCalls[1].id = cvUuids[i]
                /\ cvAgui[i].toolCalls[1].id # cvMessages[i].id

\* C13 amended: for every ActionExecutionMessage the produced assistant wire
\* message has a single tool call whose id is the message's own id, not the
\* generated id.
C13_ToolCallIdIsMessageId ==
    Converted =>
        \A i \in 1..Len(cvMessages) :
            IsType(i, "ActionExecutionMessage") =>
                /\ cvAgui[i].role = "assistant"
                /\ Len(cvAgui[i].toolCalls) = 1
                /\ cvAgui[i].toolCalls[1].id = cvMessages[i].id
                /\ cvAgui[i].toolCalls[1].id # cvUuids[i]

C13_Witness ==
    /\ Converted
    /\ Len(cvMessages) = 2
    /\ IsType(1, "ActionExecutionMessage")
    /\ IsType(2, "ActionExecutionMessage")
    /\ cvAgui[1].toolCalls[1].id = "m1"
    /\ cvAgui[2].toolCalls[1].id = "m2"
    /\ cvAgui[1].id \in Uuids

\* C14: for an ActionExecutionMessage A and a ResultMessage R of the input
\* with R.actionExecutionId = A.id, the wire message for R is a "tool"
\* message with content R.result whose toolCallId is the id of the tool call
\* emitted for A; so when every result has its action in the input, every
\* tool message's toolCallId resolves to a tool call of the same output.
C14_ToolCallIdResolves ==
    Converted =>
        /\ \A i \in 1..Len(cvMessages), j \in 1..Len(cvMessages) :
            ( /\ IsType(i, "ActionExecutionMessage")
              /\ IsType(j, "ResultMessage")
              /\ cvMessages[j].actionExecutionId = cvMessages[i].id )
            => /\ cvAgui[j].role = "tool"
               /\ cvAgui[j].content = cvMessages[j].result
               /\ Len(cvAgui[i].toolCalls) = 1
               /\ cvAgui[j].toolCallId = cvAgui[i].toolCalls[1].id
        /\ ( \A j \in 1..Len(cvMessages) : IsType(j, "ResultMessage") =>
                \E i \in 1..Len(cvMessages) :
                    /\ IsType(i, "ActionExecutionMessage")
                    /\ cvMessages[j].actionExecutionId = cvMessages[i].id )
           => \A j \in 1..Len(cvAgui) : cvAgui[j].role = "tool" =>
                \E i \in 1..Len(cvAgui) : \E k \in 1..Len(cvAgui[i].toolCalls) :
                    cvAgui[i].toolCalls[k].id = cvAgui[j].toolCallId

C14_Witness ==
    /\ Converted
    /\ Len(cvMessages) = 2
    /\ IsType(1, "ActionExecutionMessage")
    /\ IsType(2, "ResultMessage")
    /\ cvMessages[2].actionExecutionId = cvMessages[1].id
    /\ cvAgui[2].toolCallId = "m2"
    /\ cvAgui[1].toolCalls[1].id = "m2"

\* C15 as stated: converting with copilotKitToAgui and back with
\* aguiToCopilotKit yields one message per input message, in order, each
\* with the id of the original, for every variant.
C15_RoundTripId ==
    cvPhase = "back" =>
        /\ Len(cvBack) = Len(cvMessages)
        /\ \A i \in 1..Len(cvMessages) : cvBack[i].id = cvMessages[i].id

\* JSON.parse of the serialized arguments
JSONParse(text) ==
    IF text = <<"{", "}">> THEN "{}"
    ELSE IF text = <<"{", "\"", "q", "\"", ":", "\"", "x", "\"", "}">> THEN "{q:x}"
    ELSE "SyntaxError"

\* C16 as stated: the round trip of an ActionExecutionMessage preserves the
\* action name and a value equivalent to its arguments.
C16_RoundTripAction ==
    cvPhase = "back" =>
        \A i \in 1..Len(cvMessages) :
            IsType(i, "ActionExecutionMessage") =>
                /\ "name" \in DOMAIN cvBack[i]
                /\ cvBack[i].name = cvMessages[i].name
                /\ "arguments" \in DOMAIN cvBack[i]
                /\ \/ cvBack[i].arguments = cvMessages[i].arguments
                   \/ JSONParse(cvBack[i].arguments) = cvMessages[i].arguments

\* C17: on a list of TextMessages copilotKitToAgui is a pass-through: same
\* length and order, same id and content, no tool calls, and the role
\* mapped User->user, Assistant->assistant, System->system,
\* Developer->developer, anything else->user.
C17_TextPassThrough ==
    (Converted /\ \A i \in 1..Len(cvMessages) : IsType(i, "TextMessage")) =>
        /\ Len(cvAgui) = Len(cvMessages)
        /\ \A i \in 1..Len(cvMessages) :
            /\ cvAgui[i].id = cvMessages[i].id
            /\ cvAgui[i].content = cvMessages[i].content
            /\ cvAgui[i].toolCalls = <<>>
            /\ cvAgui[i].toolCallId = "undefined"
            /\ cvAgui[i].role =
                 IF cvMessages[i].role \in {"User", "Assistant", "System", "Developer"}
                 THEN [User |-> "user", Assistant |-> "assistant", System |-> "system",
                       Developer |-> "developer"][cvMessages[i].role]
                 ELSE "user"

C17_Witness ==
    /\ Converted
    /\ Len(cvMessages) = 2
    /\ IsType(1, "TextMessage") /\ cvMessages[1].role = "Developer"
    /\ IsType(2, "TextMessage") /\ cvMessages[2].role = "Tool"
    /\ cvAgui[1].role = "developer"
    /\ cvAgui[2].role = "user"
    /\ cvAgui[1].id = cvMessages[1].id

(***************************************************************************)
(* AgUiClient: generateCopilotResponse and streamCopilotResponse.  One     *)
(* client, whose handleErrors is set, serves several invocations, each     *)
(* with its own cancellation signal.  The subscribable of an invocation is *)
(* consumed through asStream, whose observer is the callback of subscribe. *)
(***************************************************************************)
\* data.threadId ("" when absent) and data.messages: absent, an empty list,
\* a list of one message, or a list holding null, on which
\* convertMessagesToAgUi throws a TypeError
AgInputs == [threadId : {"", "t1"}, messages : {"undefined", "empty", "one", "null entry"}]

\* event.type of the events of a run
AgEventTypes == {"TextMessageContent", "TextMessageEnd"}

AgError(kind, message) == [kind |-> kind, message |-> message]

\* The results passed to the callback of subscribe
AgChunk == [kind |-> "data", hasNext |-> TRUE, err |-> AgError("none", "")]
AgDone == [kind |-> "end", hasNext |-> FALSE, err |-> AgError("none", "")]
AgFailed(e) == [kind |-> "error", hasNext |-> FALSE, err |-> e]

\* generateCopilotResponse({data, properties, signal}): the invocation record,
\* whose outcome is "returned" (a subscribable) or "threw" (the catch block
\* rethrows the wrapped error)
generateCopilotResponse(input) ==
    [ threadId |-> IF input.threadId = "" THEN "default" ELSE input.threadId,
      messages |-> input.messages,
      outcome |-> IF input.messages = "null entry" THEN "threw" ELSE "returned",
      thrown |-> IF input.messages = "null entry"
                 THEN AgError("CopilotKitError", "Failed to generate response")
                 ELSE AgError("none", ""),
      subscribed |-> FALSE, run |-> "none", runThreadId |-> "", events |-> 0,
      aborted |-> FALSE, abortAt |-> -1, callbacks |-> <<>>,
      st |-> NewStream, handled |-> <<>> ]

\* asStream: the observer given to source.subscribe, on stream st: [st, handled],
\* the stream afterwards and the error passed to handleErrors, if any.  A
\* result without data and without error is ignored.
AgAsStream(st, res) ==
    IF res.kind = "error"
    THEN [st |-> CtrlError(st, res.err), handled |-> <<res.err>>]
    ELSE IF res.kind = "data"
         THEN LET q == CtrlEnqueue(st, [seq |-> Len(st.queue) + 1, rec |-> "chunk"]).st IN
              [st |-> IF ~res.hasNext THEN CtrlClose(q).st ELSE q, handled |-> <<>>]
         ELSE [st |-> st, handled |-> <<>>]

\* callback(res) of invocation inv
AgCallback(inv, res) ==
    [inv EXCEPT !.callbacks = Append(@, res),
                !.st = AgAsStream(@, res).st,
                !.handled = @ \o AgAsStream(inv.st, res).handled]

\* streamCopilotResponse: [inv, threadId], the invocation and this.agent.threadId
\* after the call; runThrows: this.agent.runAgent throws
streamCopilotResponse(inv, runThrows) ==
    IF inv.messages \in {"undefined", "empty"}
    THEN [inv |-> AgCallback([inv EXCEPT !.subscribed = TRUE],
                             AgFailed(AgError("Error", "No messages provided"))),
          threadId |-> inv.threadId]
    ELSE IF runThrows
         THEN [inv |-> AgCallback([inv EXCEPT !.subscribed = TRUE],
                                  AgFailed(AgError("Error", "runAgent"))),
               threadId |-> inv.threadId]
         ELSE [inv |-> [inv EXCEPT !.subscribed = TRUE, !.run = "active",
                                   !.runThreadId = inv.threadId],
               threadId |-> inv.threadId]

AgInit ==
    /\ clientUrl \in ClientUrls
    /\ TrIdle
    /\ StIdle
    /\ DcIdle
    /\ DdIdle
    /\ ClIdle
    /\ FcIdle
    /\ CvIdle
    /\ AgIdle
    /\ CsIdle
    /\ RqIdle
    /\ RtIdle

\* A call of generateCopilotResponse
AgGenerate(input) ==
    /\ Len(agInv) < MaxInvocations
    /\ LET inv == generateCopilotResponse(input) IN
        /\ agInv' = Append(agInv, inv)
        /\ agHandleErrors' = IF inv.outcome = "threw"
                             THEN Append(agHandleErrors, inv.thrown)
                             ELSE agHandleErrors
    /\ UNCHANGED <<notAgUi, agentThreadId>>

\* result.subscribe(callback) on the subscribable of invocation i
AgSubscribe(i, runThrows) ==
    /\ i \in 1..Len(agInv)
    /\ agInv[i].outcome = "returned"
    /\ ~agInv[i].subscribed
    /\ LET s == streamCopilotResponse(agInv[i], runThrows) IN
        /\ agInv' = [agInv EXCEPT ![i] = s.inv]
        /\ agentThreadId' = s.threadId
    /\ UNCHANGED <<notAgUi, agHandleErrors>>

\* The run of invocation i emits an event: next
AgNext(i, type) ==
    /\ i \in 1..Len(agInv)
    /\ agInv[i].run = "active"
    /\ agInv[i].events < MaxAgEvents
    /\ agInv' = [agInv EXCEPT ![i] =
                    LET inv == [@ EXCEPT !.events = @ + 1] IN
                    IF type = "TextMessageContent" THEN AgCallback(inv, AgChunk) ELSE inv]
    /\ UNCHANGED <<notAgUi, agentThreadId, agHandleErrors>>

\* The run of invocation i completes
AgComplete(i) ==
    /\ i \in 1..Len(agInv)
    /\ agInv[i].run = "active"
    /\ agInv' = [agInv EXCEPT ![i] = AgCallback([@ EXCEPT !.run = "completed"], AgDone)]
    /\ UNCHANGED <<notAgUi, agentThreadId, agHandleErrors>>

\* The run of invocation i fails
AgRunError(i) ==
    /\ i \in 1..Len(agInv)
    /\ agInv[i].run = "active"
    /\ agInv' = [agInv EXCEPT ![i] =
                    AgCallback([@ EXCEPT !.run = "errored"], AgFailed(AgError("Error", "run")))]
    /\ UNCHANGED <<notAgUi, agentThreadId, agHandleErrors>>

\* The signal of invocation i fires: the client has no listener on it and
\* never reads signal.aborted
AgAbort(i) ==
    /\ i \in 1..Len(agInv)
    /\ ~agInv[i].aborted
    /\ agInv' = [agInv EXCEPT ![i].aborted = TRUE, ![i].abortAt = Len(agInv[i].callbacks)]
    /\ UNCHANGED <<notAgUi, agentThreadId, agHandleErrors>>

AgNextStep ==
    \/ \E input \in AgInputs : AgGenerate(input)
    \/ \E i \in 1..MaxInvocations, runThrows \in BOOLEAN : AgSubscribe(i, runThrows)
    \/ \E i \in 1..MaxInvocations, type \in AgEventTypes : AgNext(i, type)
    \/ \E i \in 1..MaxInvocations : AgComplete(i)
    \/ \E i \in 1..MaxInvocations : AgRunError(i)
    \/ \E i \in 1..MaxInvocations : AgAbort(i)

SpecAgUi == AgInit /\ [][AgNextStep]_vars

\* The event loop keeps running the calls and the run's events that are due
SpecAgUiLive == SpecAgUi /\ WF_vars(AgNextStep)

(***************************************************************************)
(* Claims about AgUiClient.                                                *)
(***************************************************************************)
\* C21 as stated: generateCopilotResponse returns a subscribable without
\* throwing synchronously for every failure raised while converting
\* messages, preparing tools, starting the agent run or translating events;
\* the failure reaches the caller only through the subscriber's error
\* channel and the error callback.
C21_NeverThrownSynchronously ==
    \A i \in 1..Len(agInv) : agInv[i].outcome = "returned"

\* C24 as stated: generateCopilotResponse never writes client-level state,
\* so when a second invocation starts before the first stream has completed,
\* the thread id the first invocation's agent run operates on is unchanged.
C24_RunStateUntouched ==
    \A i \in 1..Len(agInv) :
        agInv[i].run = "active" => agentThreadId = agInv[i].runThreadId

\* What does hold of AgUiClient: a failure raised after the subscribable was
\* returned (no messages, runAgent throwing, the run failing) is passed to the
\* callback as an error and ends the callbacks
AgLaterFailuresDelivered ==
    \A i \in 1..Len(agInv) :
        (agInv[i].subscribed /\ agInv[i].run \in {"none", "errored"}) =>
            /\ agInv[i].callbacks # <<>>
            /\ agInv[i].callbacks[Len(agInv[i].callbacks)].kind = "error"

\* The stream of invocation i is closed or errored, or its close is requested
AgStreamTerminated(i) ==
    /\ i \in 1..Len(agInv)
    /\ \/ agInv[i].st.state \in {"closed", "errored"}
       \/ agInv[i].st.closeRequested

AgRunCompleted(i) == i \in 1..Len(agInv) /\ agInv[i].run = "completed"

\* C32: when the agent run completes, with zero or more content chunks
\* forwarded, the stream built by asStream over generateCopilotResponse is
\* eventually closed: the completion signal {hasNext: false} sent without
\* data closes the stream.
C32_CompletionClosesStream ==
    \A i \in 1..MaxInvocations : AgRunCompleted(i) ~> AgStreamTerminated(i)

\* What holds: the completion signal is delivered to the observer last, and
\* leaves the stream readable with the forwarded chunks queued; a failure
\* errors the stream.
CompletionLeavesOpen ==
    \A i \in 1..Len(agInv) :
        /\ agInv[i].run = "completed" =>
              /\ agInv[i].callbacks[Len(agInv[i].callbacks)] = AgDone
              /\ agInv[i].st.state = "readable" /\ ~agInv[i].st.closeRequested
              /\ Len(agInv[i].st.queue) = Len(agInv[i].callbacks) - 1
        /\ (agInv[i].subscribed /\ agInv[i].run \in {"none", "errored"}) =>
              agInv[i].st.state = "errored"

(***************************************************************************)
(* Error classification of useDirectAgUiRuntimeClient:                     *)
(* createStructuredError and the fallback of routeError, for an entry that *)
(* passed the visibility and duplicate tests.                              *)
(***************************************************************************)
\* Error names a stack trace can hold; none is a substring of another, so
\* stack.includes(name) is: name is one of the names in the stack
StackNames ==
    {"CopilotApiDiscoveryError", "CopilotKitRemoteEndpointDiscoveryError",
     "CopilotKitAgentDiscoveryError", "TypeError"}
Stacks == UNION { [1..n -> StackNames] : n \in 0..MaxStackLen }
Includes(stack, name) == \E i \in 1..Len(stack) : stack[i] = name

\* Entries of a graphQLErrors list: message, extensions (absent, or with a
\* code, "" when it has none, and an originalError, which has a message, ""
\* when it has none, and may have a stack)
ClassifiedErrors ==
    { [message |-> "gql message", hasExtensions |-> FALSE, code |-> "", hasOriginal |-> FALSE,
       originalMessage |-> "", hasStack |-> FALSE, stack |-> <<>>] }
    \cup [message : {"gql message"}, hasExtensions : {TRUE},
          code : {"", "NETWORK_ERROR", "API_NOT_FOUND"}, hasOriginal : {FALSE},
          originalMessage : {""}, hasStack : {FALSE}, stack : {<<>>}]
    \cup [message : {"gql message"}, hasExtensions : {TRUE},
          code : {"", "NETWORK_ERROR", "API_NOT_FOUND"}, hasOriginal : {TRUE},
          originalMessage : {"", "original message"}, hasStack : {FALSE}, stack : {<<>>}]
    \cup [message : {"gql message"}, hasExtensions : {TRUE},
          code : {"", "NETWORK_ERROR", "API_NOT_FOUND"}, hasOriginal : {TRUE},
          originalMessage : {"", "original message"}, hasStack : {TRUE}, stack : Stacks]

\* CopilotKitError and its subclasses: class, code, message
StructuredError(kind, code, message) == [kind |-> kind, code |-> code, message |-> message]
NoStructuredError == StructuredError("null", "", "")

\* Mutant: the agent discovery test comes first
createStructuredErrorAgentFirst(gqlError) ==
    LET message == IF gqlError.originalMessage # "" THEN gqlError.originalMessage
                   ELSE gqlError.message
    IN  IF gqlError.code # ""
        THEN StructuredError("CopilotKitError", gqlError.code, message)
        ELSE IF Includes(gqlError.stack, "CopilotKitAgentDiscoveryError")
        THEN StructuredError("CopilotKitAgentDiscoveryError", "class default", "")
        ELSE IF Includes(gqlError.stack, "CopilotApiDiscoveryError")
        THEN StructuredError("CopilotKitApiDiscoveryError", "class default", message)
        ELSE IF Includes(gqlError.stack, "CopilotKitRemoteEndpointDiscoveryError")
        THEN StructuredError("CopilotKitRemoteEndpointDiscoveryError",
                             "class default", message)
        ELSE NoStructuredError

\* createStructuredError(gqlError); the agent discovery error is built from
\* {agentName: "", availableAgents: []}, not from the message
createStructuredError(gqlError) ==
    LET message == IF gqlError.originalMessage # "" THEN gqlError.originalMessage
                   ELSE gqlError.message
    IN  IF gqlError.code # ""
        THEN StructuredError("CopilotKitError", gqlError.code, message)
        ELSE IF Includes(gqlError.stack, "CopilotApiDiscoveryError")
        THEN StructuredError("CopilotKitApiDiscoveryError", "class default", message)
        ELSE IF Includes(gqlError.stack, "CopilotKitRemoteEndpointDiscoveryError")
        THEN StructuredError("CopilotKitRemoteEndpointDiscoveryError",
                             "class default", message)
        ELSE IF Includes(gqlError.stack, "CopilotKitAgentDiscoveryError")
        THEN StructuredError("CopilotKitAgentDiscoveryError", "class default", "")
        ELSE NoStructuredError

\* routeError after the duplicate test: the errors passed to setBannerError
ShowStructured(shown, gqlError) ==
    LET ckError == createStructuredError(gqlError) IN
    IF ckError # NoStructuredError
    THEN Append(shown, ckError)
    ELSE Append(shown, StructuredError("CopilotKitError", "UNKNOWN", gqlError.message))

CsInit ==
    /\ clientUrl \in ClientUrls
    /\ TrIdle
    /\ StIdle
    /\ DcIdle
    /\ DdIdle
    /\ ClIdle
    /\ FcIdle
    /\ CvIdle
    /\ AgIdle
    /\ RqIdle
    /\ RtIdle
    /\ csError \in ClassifiedErrors
    /\ csShown = <<>>

\* routeError classifies and shows the entry
CsRoute ==
    /\ csShown = <<>>
    /\ csShown' = ShowStructured(csShown, csError)
    /\ UNCHANGED <<notClassify, csError>>

\* handleGQLErrors is given another entry
CsArrive(gqlError) ==
    /\ csShown # <<>>
    /\ csError' = gqlError
    /\ csShown' = <<>>
    /\ UNCHANGED notClassify

CsNext ==
    \/ CsRoute
    \/ \E gqlError \in ClassifiedErrors : CsArrive(gqlError)

SpecClassify == CsInit /\ [][CsNext]_vars

(***************************************************************************)
(* Claims about error classification.                                      *)
(***************************************************************************)
\* The specialized kind the stack of the entry names first in the order API
\* discovery, remote endpoint discovery, agent discovery; "none" if none
NamedKind(e) ==
    IF Includes(e.stack, "CopilotApiDiscoveryError") THEN "CopilotKitApiDiscoveryError"
    ELSE IF Includes(e.stack, "CopilotKitRemoteEndpointDiscoveryError")
    THEN "CopilotKitRemoteEndpointDiscoveryError"
    ELSE IF Includes(e.stack, "CopilotKitAgentDiscoveryError")
    THEN "CopilotKitAgentDiscoveryError"
    ELSE "none"

\* C25: classification is total and ordered: an entry whose extensions carry
\* a code is shown as one structured error with exactly that code; otherwise
\* an entry whose original stack names an API discovery, remote endpoint
\* discovery or agent discovery error is shown as the corresponding kind,
\* tested in that order; otherwise it is shown as an UNKNOWN error with the
\* entry's message.  Every entry is shown as exactly one structured error.
C25_ClassificationOrdered ==
    csShown # <<>> =>
        /\ Len(csShown) = 1
        /\ csShown[1].kind # "null"
        /\ IF csError.code # ""
           THEN csShown[1].kind = "CopilotKitError" /\ csShown[1].code = csError.code
           ELSE IF NamedKind(csError) # "none"
                THEN csShown[1].kind = NamedKind(csError)
                ELSE /\ csShown[1].kind = "CopilotKitError"
                     /\ csShown[1].code = "UNKNOWN"
                     /\ csShown[1].message = csError.message

\* An entry without a code, whose stack names the agent discovery error
\* before the API discovery error, has been shown
C25_Witness ==
    /\ csShown # <<>>
    /\ csError.code = ""
    /\ csError.stack = <<"CopilotKitAgentDiscoveryError", "CopilotApiDiscoveryError">>
    /\ csShown[1].kind = "CopilotKitApiDiscoveryError"

(***************************************************************************)
(* DirectAgUiRuntimeClient: availableAgents and loadAgentState.  Both call *)
(* the fetch function of createFetchFn() with no signal, and chain         *)
(* .then(response => {data: await response.json(), error: null})           *)
(* .catch(error => {handleGQLErrors?.(error); return {data: null, error}}).*)
(***************************************************************************)
MaxRequests == 2

ThreadIds == {"t1", "t2"}
LoadedAgents == {"a1", "a2"}

\* The argument of loadAgentState: {threadId, agentName}
AgentStateInputs == [threadId : ThreadIds, agentName : LoadedAgents]

\* A JSON object is the sequence of its <<key, value>> members
JsonObject(members) == members

\* JSON.stringify(data) for data = {threadId, agentName}
StringifyInput(data) ==
    JsonObject(<< <<"threadId", data.threadId>>, <<"agentName", data.agentName>> >>)

\* What response.json() can resolve to: null, or an object
JsonValues == {"null", "object"}

\* `${this.baseUrl}/agents` and `${this.baseUrl}/agent-state`
AgentsUrl == "baseUrl/agents"
AgentStateUrl == "baseUrl/agent-state"

\* fetchFn(url, {method, body}) has been called and fetch() has not settled
Request(op, method, url, body) ==
    [ op |-> op, method |-> method, url |-> url, body |-> body,
      phase |-> "fetching", data |-> "null", error |-> NoDcError, handled |-> 0 ]

availableAgents == Request("availableAgents", "GET", AgentsUrl, <<>>)

loadAgentState(data) ==
    Request("loadAgentState", "POST", AgentStateUrl,
            JsonObject(<< <<"data", StringifyInput(data)>> >>))

\* The .catch callback of request r for error e
RequestCatch(r, e) ==
    IF rqHandler = "throws"
    THEN [r EXCEPT !.phase = "rejected", !.handled = @ + 1, !.error = e]
    ELSE [r EXCEPT !.phase = "resolved", !.data = "null", !.error = e,
                   !.handled = IF rqHandler = "undefined" THEN @ ELSE @ + 1]

\* The error of the fetch function, for a request to url
ErrorAt(e, url) == IF e.kind = "CopilotKitLowLevelError" THEN [e EXCEPT !.url = url] ELSE e

RqInit ==
    /\ clientUrl = ""
    /\ TrIdle
    /\ StIdle
    /\ DcIdle
    /\ DdIdle
    /\ ClIdle
    /\ FcIdle
    /\ CvIdle
    /\ AgIdle
    /\ CsIdle
    /\ rqHandler \in {"undefined", "returns", "throws"}
    /\ rqApiKey \in BOOLEAN
    /\ rqLog = <<>>
    /\ RtIdle

\* client.availableAgents() or client.loadAgentState(data)
RqCall(r) ==
    /\ Len(rqLog) < MaxRequests
    /\ rqLog' = Append(rqLog, r)
    /\ UNCHANGED <<notRequests, rqHandler, rqApiKey>>

\* fetch() of request i settles with outcome o
RqFetchSettles(i, o) ==
    /\ i \in 1..Len(rqLog)
    /\ rqLog[i].phase = "fetching"
    /\ LET f == FetchSettled(o, rqApiKey) IN
        rqLog' = [rqLog EXCEPT ![i] =
                    IF f.json THEN [@ EXCEPT !.phase = "json"]
                    ELSE RequestCatch(@, ErrorAt(f.err, @.url))]
    /\ UNCHANGED <<notRequests, rqHandler, rqApiKey>>

\* response.json() of request i resolves with value v
RqJsonResolves(i, v) ==
    /\ i \in 1..Len(rqLog)
    /\ rqLog[i].phase = "json"
    /\ rqLog' = [rqLog EXCEPT ![i] = [@ EXCEPT !.phase = "resolved", !.data = v]]
    /\ UNCHANGED <<notRequests, rqHandler, rqApiKey>>

\* response.json() of request i rejects
RqJsonRejects(i, message) ==
    /\ i \in 1..Len(rqLog)
    /\ rqLog[i].phase = "json"
    /\ rqLog' = [rqLog EXCEPT ![i] = RequestCatch(@, DcError("BodyError", message, 0, ""))]
    /\ UNCHANGED <<notRequests, rqHandler, rqApiKey>>

RqNext ==
    \/ RqCall(availableAgents)
    \/ \E data \in AgentStateInputs : RqCall(loadAgentState(data))
    \/ \E i \in 1..MaxRequests :
          \E o \in FetchResponses \cup FetchRejections(FALSE) : RqFetchSettles(i, o)
    \/ \E i \in 1..MaxRequests, v \in JsonValues : RqJsonResolves(i, v)
    \/ \E i \in 1..MaxRequests, message \in JsonRejections(FALSE) : RqJsonRejects(i, message)

SpecRequests == RqInit /\ [][RqNext]_vars

(***************************************************************************)
(* Claims about availableAgents and loadAgentState.                        *)
(***************************************************************************)
\* The request is the one the interface describes
AsDescribed(r) ==
    \/ /\ r.op = "availableAgents"
       /\ r.method = "GET"
       /\ r.url = AgentsUrl
    \/ /\ r.op = "loadAgentState"
       /\ r.method = "POST"
       /\ r.url = AgentStateUrl
       /\ Len(r.body) = 2
       /\ r.body[1][1] = "threadId"
       /\ r.body[2][1] = "agentName"

\* The promise of the request has not rejected, and once it has resolved
\* exactly one of data and error is non-null
OneOfDataError(r) ==
    /\ r.phase # "rejected"
    /\ r.phase = "resolved" => (r.data = "null") # (r.error = NoDcError)

\* C29: loadAgentState issues POST {baseUrl}/agent-state whose JSON body is
\* exactly the object {threadId, agentName} built from its argument, with
\* those two fields at the top level; availableAgents issues GET
\* {baseUrl}/agents; both resolve, never reject, to {data, error} with
\* exactly one of the two non-null.
C29_AgentRequests ==
    \A i \in 1..Len(rqLog) : AsDescribed(rqLog[i]) /\ OneOfDataError(rqLog[i])

\* What holds: method and url are the described ones, the body of
\* loadAgentState is the object {data: {threadId, agentName}}, and the
\* promise resolves unless handleGQLErrors throws, to {data, error} with at
\* most one of the two non-null (both are null for the response body null).
AgentRequestsAsBuilt ==
    \A i \in 1..Len(rqLog) :
        LET r == rqLog[i] IN
        /\ r.op = "availableAgents" => r.method = "GET" /\ r.url = AgentsUrl /\ r.body = <<>>
        /\ r.op = "loadAgentState" =>
              /\ r.method = "POST" /\ r.url = AgentStateUrl
              /\ Len(r.body) = 1 /\ r.body[1][1] = "data"
              /\ \E data \in AgentStateInputs : r.body[1][2] = StringifyInput(data)
        /\ rqHandler # "throws" => r.phase # "rejected"
        /\ r.phase = "resolved" => (r.data = "null" \/ r.error = NoDcError)
        /\ (r.phase = "resolved" /\ r.error = NoDcError) => r.handled = 0

(***************************************************************************)
(* removeGraphQLTypename.  A value is a string, null, an array of values   *)
(* or an object, a function from its own keys to values.                   *)
(***************************************************************************)
MaxDepth == 4

Str(s) == [kind |-> "str", val |-> s]
JsNull == [kind |-> "null", val |-> ""]
Arr(items) == [kind |-> "arr", val |-> items]
Obj(fields) == [kind |-> "obj", val |-> fields]

\* { __typename: "T" } and {}
TypedObject == Obj([k \in {"__typename"} |-> Str("T")])
EmptyObject == Obj([k \in {} |-> JsNull])

\* { ...(typed && { __typename: "T" }), [key]: v }
ObjectAround(typed, key, v) ==
    Obj([k \in {key} \cup (IF typed THEN {"__typename"} ELSE {}) |->
            IF k = key THEN v ELSE Str("T")])

\* nesting depth of a value
Max(ns) == CHOOSE n \in ns : \A m \in ns : m <= n

RECURSIVE Depth(_)
Depth(v) ==
    IF v.kind = "arr"
    THEN 1 + Max({0} \cup {Depth(v.val[i]) : i \in DOMAIN v.val})
    ELSE IF v.kind = "obj"
         THEN 1 + Max({0} \cup {Depth(v.val[k]) : k \in DOMAIN v.val})
         ELSE 0

\* typeof v === "object" && v !== null
IsObjectObjectsOnly(v) == v.kind = "obj"
IsObject(v) == v.kind \in {"obj", "arr"}

RECURSIVE removeGraphQLTypename(_)
removeGraphQLTypename(data) ==
    IF data.kind = "arr"
    THEN Arr([i \in DOMAIN data.val |-> removeGraphQLTypename(data.val[i])])
    ELSE IF IsObject(data)
         THEN Obj([key \in DOMAIN data.val \ {"__typename"} |->
                      IF IsObject(data.val[key])
                      THEN removeGraphQLTypename(data.val[key])
                      ELSE data.val[key]])
         ELSE data

\* Values a caller starts from, and array items it puts beside a value
Seeds == {Str("v"), JsNull, EmptyObject, TypedObject, Arr(<<>>)}
Siblings == {<<>>, <<TypedObject>>}

RtInit ==
    /\ clientUrl = ""
    /\ TrIdle
    /\ StIdle
    /\ DcIdle
    /\ DdIdle
    /\ ClIdle
    /\ FcIdle
    /\ CvIdle
    /\ AgIdle
    /\ CsIdle
    /\ RqIdle
    /\ rtData \in Seeds
    /\ rtInput = rtData
    /\ rtCalls = <<>>

\* The caller puts the value in an object, under a key
RtWrapObject(typed, key) ==
    /\ rtCalls = <<>>
    /\ Depth(rtData) < MaxDepth
    /\ rtData' = ObjectAround(typed, key, rtData)
    /\ rtInput' = rtData'
    /\ UNCHANGED <<notTypename, rtCalls>>

\* The caller puts the value in an array, between other items
RtWrapArray(before, after) ==
    /\ rtCalls = <<>>
    /\ Depth(rtData) < MaxDepth
    /\ rtData' = Arr(before \o <<rtData>> \o after)
    /\ rtInput' = rtData'
    /\ UNCHANGED <<notTypename, rtCalls>>

\* removeGraphQLTypename(data): data is changed in place and returned
RtRemove ==
    /\ Len(rtCalls) < 2
    /\ rtData' = removeGraphQLTypename(rtData)
    /\ rtCalls' = Append(rtCalls, rtData')
    /\ UNCHANGED <<notTypename, rtInput>>

RtNext ==
    \/ \E typed \in BOOLEAN, key \in {"nested", "array"} : RtWrapObject(typed, key)
    \/ \E before \in Siblings, after \in Siblings : RtWrapArray(before, after)
    \/ RtRemove

SpecTypename == RtInit /\ [][RtNext]_vars

(***************************************************************************)
(* Claims about removeGraphQLTypename.                                     *)
(***************************************************************************)
\* b is a without its __typename keys: at every depth the same kind, the
\* same other keys, the same array length and the same strings
RECURSIVE SameButTypename(_, _)
SameButTypename(a, b) ==
    /\ a.kind = b.kind
    /\ a.kind \in {"str", "null"} => a = b
    /\ a.kind = "arr" =>
          /\ Len(b.val) = Len(a.val)
          /\ \A i \in 1..Len(a.val) : SameButTypename(a.val[i], b.val[i])
    /\ a.kind = "obj" =>
          /\ DOMAIN b.val = DOMAIN a.val \ {"__typename"}
          /\ \A k \in DOMAIN b.val : SameButTypename(a.val[k], b.val[k])

\* v has an object with a __typename key, at some depth
RECURSIVE HasTypename(_)
HasTypename(v) ==
    \/ v.kind = "obj" /\ "__typename" \in DOMAIN v.val
    \/ v.kind = "obj" /\ \E k \in DOMAIN v.val : HasTypename(v.val[k])
    \/ v.kind = "arr" /\ \E i \in DOMAIN v.val : HasTypename(v.val[i])

\* C30: removeGraphQLTypename removes the __typename field at every nesting
\* depth, in objects inside objects and inside arrays, leaves every other
\* field and value unchanged, and applying it twice gives the same result as
\* applying it once.
C30_TypenameRemoved ==
    /\ Len(rtCalls) >= 1 =>
          /\ SameButTypename(rtInput, rtCalls[1])
          /\ ~HasTypename(rtCalls[1])
          /\ rtData = rtCalls[Len(rtCalls)]
    /\ Len(rtCalls) = 2 => rtCalls[2] = rtCalls[1]

\* The shape of the tests: __typename at the root, in a nested object and in
\* an object inside an array inside an object, removed by two calls
C30_Witness ==
    /\ Len(rtCalls) = 2
    /\ rtInput.kind = "obj"
    /\ DOMAIN rtInput.val = {"__typename", "array"}
    /\ rtInput.val["array"].kind = "arr"
    /\ Len(rtInput.val["array"].val) = 2
    /\ rtInput.val["array"].val[1] = ObjectAround(TRUE, "nested", TypedObject)
    /\ rtInput.val["array"].val[2] = TypedObject
    /\ rtCalls[1] = Obj([k \in {"array"} |->
                           Arr(<<Obj([j \in {"nested"} |-> EmptyObject]), EmptyObject>>)])

(***************************************************************************)
(* The translator on its own: every call of convertAGUIEventToGQL, on any  *)
(* event, with any value of randomId().                                    *)
(***************************************************************************)
TrInit ==
    /\ clientUrl \in ClientUrls
    /\ TrIdle
    /\ StIdle
    /\ DcIdle
    /\ DdIdle
    /\ ClIdle
    /\ FcIdle
    /\ CvIdle
    /\ AgIdle
    /\ CsIdle
    /\ RqIdle
    /\ RtIdle

Translate(event, rid) ==
    /\ Len(trEvents) < MaxTrLen
    /\ trEvents' = Append(trEvents, event)
    /\ trOut' = Append(trOut, convertAGUIEventToGQL(event, rid, clientUrl))
    /\ UNCHANGED notTranslate

TrNext == \E event \in Events, rid \in RandomIds : Translate(event, rid)

SpecTranslate == TrInit /\ [][TrNext]_vars

(***************************************************************************)
(* Claims about the translator.                                            *)
(***************************************************************************)
\* s[1] \o s[2] \o ... for a sequence of sequences
RECURSIVE Concat(_)
Concat(ss) == IF ss = <<>> THEN <<>> ELSE Head(ss) \o Concat(Tail(ss))

ContentOf(o) == IF "content" \in o.has THEN o.content ELSE <<>>

\* events is text_message_start, text_message_content*, text_message_end, all for mid
IsTextLifecycle(events, mid) ==
    /\ Len(events) >= 2
    /\ events[1].type = "text_message_start"
    /\ events[Len(events)].type = "text_message_end"
    /\ \A i \in 2..(Len(events) - 1) : events[i].type = "text_message_content"
    /\ \A i \in 1..Len(events) : "messageId" \in events[i].has /\ events[i].messageId = mid

\* C2: a text message lifecycle start, content*, end for one message id is
\* translated to one TextMessageOutput per event, all with that id; the first
\* has status PENDING, the content records carry no status, the last has
\* status SUCCESS, and the record contents concatenate to the event deltas.
C2_TextLifecycle ==
    \A mid \in MessageIds :
        IsTextLifecycle(trEvents, mid) =>
            LET n == Len(trEvents) IN
            /\ Len(trOut) = n
            /\ \A i \in 1..n :
                    /\ trOut[i].kind = "record"
                    /\ trOut[i].rec.typename = "TextMessageOutput"
                    /\ "id" \in trOut[i].rec.has
                    /\ trOut[i].rec.id = mid
            /\ "status" \in trOut[1].rec.has /\ trOut[1].rec.status = "PENDING"
            /\ \A i \in 2..(n - 1) : "status" \notin trOut[i].rec.has
            /\ "status" \in trOut[n].rec.has /\ trOut[n].rec.status = "SUCCESS"
            /\ Concat([i \in 1..n |-> ContentOf(trOut[i].rec)])
                 = Concat([i \in 1..(n - 2) |-> ContentOf(trEvents[i + 1])])

C2_Witness ==
    /\ IsTextLifecycle(trEvents, "m1")
    /\ Len(trEvents) = 3
    /\ trEvents[2].content = <<"b">>
    /\ Len(trOut) = 3

\* The record of result r is a record for id x with status code st
HasStatusFor(r, x, st) ==
    /\ r.kind = "record"
    /\ "id" \in r.rec.has /\ r.rec.id = x
    /\ "status" \in r.rec.has /\ r.rec.status = st

\* No record for x shows PENDING after a record for x showed SUCCESS
NoRegress(x) ==
    \A i, j \in 1..Len(trOut) :
        i < j => ~(HasStatusFor(trOut[i], x, "SUCCESS") /\ HasStatusFor(trOut[j], x, "PENDING"))

Recognized ==
    { "text_message_start", "text_message_content", "text_message_end",
      "action_execution_start", "action_execution_args", "action_execution_end",
      "agent_state_message", "meta_event", "error" }

Carries(e, x) ==
    \/ e.type \in {"text_message_start", "text_message_end"}
          /\ "messageId" \in e.has /\ e.messageId = x
    \/ e.type \in {"action_execution_start", "action_execution_end"}
          /\ "actionExecutionId" \in e.has /\ e.actionExecutionId = x
    \/ e.type \notin Recognized /\ "id" \in e.has /\ e.id = x

StartLike(e, x) ==
    Carries(e, x) /\ e.type \notin {"text_message_end", "action_execution_end"}

EndLike(e, x) ==
    Carries(e, x) /\ e.type \notin {"text_message_start", "action_execution_start"}

\* The upstream sends no start (or unrecognized) event for x after an end
\* (or unrecognized) event for x
UpstreamOrdered(x) ==
    \A i, j \in 1..Len(trEvents) :
        i < j => ~(EndLike(trEvents[i], x) /\ StartLike(trEvents[j], x))

Unrecognized(i) == trEvents[i].type \notin Recognized

\* C28: every protocol event whose type is not one of the recognized types
\* is translated to exactly one record, never dropped, whose __typename is
\* TextMessageOutput and whose status code is SUCCESS, whatever fields the
\* event itself carries.
C28_FallbackIsSuccess ==
    /\ Len(trOut) = Len(trEvents)
    /\ \A i \in 1..Len(trOut) :
          Unrecognized(i) =>
              /\ trOut[i].kind = "record"
              /\ trOut[i].rec.typename = "TextMessageOutput"
              /\ "status" \in trOut[i].rec.has
              /\ trOut[i].rec.status = "SUCCESS"

\* An unrecognized event is never dropped, and its own keys are the record's:
\* the record is SUCCESS exactly when the event carries no status of its own.
FallbackKeepsEventKeys ==
    /\ Len(trOut) = Len(trEvents)
    /\ \A i \in 1..Len(trOut) :
          Unrecognized(i) =>
              /\ trOut[i].kind = "record"
              /\ \A k \in trEvents[i].has : trOut[i].rec[k] = trEvents[i][k]
              /\ "status" \notin trEvents[i].has => trOut[i].rec.status = "SUCCESS"
              /\ "typename" \notin trEvents[i].has =>
                    trOut[i].rec.typename = "TextMessageOutput"

====
